---- MODULE Spec2Model ----
(***************************************************************************)
(* Job-market analytics pipeline, step 2 (Glassdoor variant): the          *)
(* per-record derivations of python/02_clean_and_normalize_glassdoor.py    *)
(* and the rule tables of config_glassdoor_dataset.py.                     *)
(*                                                                         *)
(* Text is modelled as a sequence of one-character strings, so that        *)
(* lower(), strip(), split(), the `in` substring test and the \b regular-  *)
(* expression boundary are computed character by character as Python     *)
(* computes them (ASCII text only).                                        *)
(***************************************************************************)
EXTENDS Integers, Sequences, FiniteSets, TLC

----------------------------------------------------------------------------
(* Python str primitives                                                   *)

\* The printable ASCII characters in code-point order, from 32 (space) to 126
\* ("(96)" holds the place of the grave accent, which no text here uses).
Ascii ==
  << " ", "!", "\"", "#", "$", "%", "&", "'", "(", ")", "*", "+", ",", "-", ".", "/",
     "0", "1", "2", "3", "4", "5", "6", "7", "8", "9", ":", ";", "<", "=", ">", "?",
     "@", "A", "B", "C", "D", "E", "F", "G", "H", "I", "J", "K", "L", "M", "N", "O",
     "P", "Q", "R", "S", "T", "U", "V", "W", "X", "Y", "Z", "[", "\\", "]", "^", "_",
     "(96)", "a", "b", "c", "d", "e", "f", "g", "h", "i", "j", "k", "l", "m", "n", "o",
     "p", "q", "r", "s", "t", "u", "v", "w", "x", "y", "z", "{", "|", "}", "~" >>

\* ord(c) for every character of Ascii (the first one, the space, is 32).
OrdTable == [c \in {Ascii[i] : i \in 1..Len(Ascii)} |->
               31 + (CHOOSE i \in 1..Len(Ascii) : Ascii[i] = c)]

Ord(c) == OrdTable[c]

\* chr(n): Ascii starts at code point 32.
Chr(n) == Ascii[n - 31]

\* One character of str.lower(): 'A'..'Z' (65..90) move to 'a'..'z' (+32).
LowerTable == [c \in DOMAIN OrdTable |->
                 IF OrdTable[c] >= 65 /\ OrdTable[c] <= 90 THEN Chr(OrdTable[c] + 32) ELSE c]

\* str.lower()
Lower(s) == [i \in 1..Len(s) |-> LowerTable[s[i]]]

\* One character of str.upper(): 'a'..'z' (97..122) move to 'A'..'Z' (-32).
UpperTable == [c \in DOMAIN OrdTable |->
                 IF OrdTable[c] >= 97 /\ OrdTable[c] <= 122 THEN Chr(OrdTable[c] - 32) ELSE c]

\* str.upper()
Upper(s) == [i \in 1..Len(s) |-> UpperTable[s[i]]]

\* `k in s` for two str values: k occurs in s as a contiguous substring.
Contains(s, k) ==
  \E i \in 0..(Len(s) - Len(k)) : \A j \in 1..Len(k) : s[i + j] = k[j]

\* Whitespace as str.strip() sees it (the space is the only whitespace
\* character of the texts considered here).
IsSpace(c) == c = " "

\* str.strip(): drop leading and trailing whitespace.
Strip(s) ==
  LET keep == {i \in 1..Len(s) : ~IsSpace(s[i])}
  IN  IF keep = {} THEN << >>
      ELSE LET lo == CHOOSE i \in keep : \A j \in keep : i <= j
               hi == CHOOSE i \in keep : \A j \in keep : i >= j
           IN  SubSeq(s, lo, hi)

\* str.split(','): the segments between commas, a list of at least one text.
RECURSIVE Split(_)
Split(s) ==
  LET commas == {i \in 1..Len(s) : s[i] = ","}
  IN  IF commas = {} THEN << s >>
      ELSE LET c == CHOOSE i \in commas : \A j \in commas : i <= j
           IN  << SubSeq(s, 1, c - 1) >> \o Split(SubSeq(s, c + 1, Len(s)))

\* Concatenation of a list of texts.
RECURSIVE Concat(_)
Concat(parts) ==
  IF parts = << >> THEN << >> ELSE Head(parts) \o Concat(Tail(parts))

\* Python values that may sit in a DataFrame cell or be returned.
NaN == [kind |-> "nan"]                        \* a missing cell (pd.isna)
None == [kind |-> "None"]                      \* Python None
Str(s) == [kind |-> "str", text |-> s]         \* a str
Float(n) == [kind |-> "float", val |-> n]      \* a number

\* pd.isna / pd.notna on a scalar.
IsNa(v) == v.kind \in {"nan", "None"}
NotNa(v) == ~IsNa(v)

----------------------------------------------------------------------------
(* parse_salary_from_fields                                                *)

\* A column the row does not have: row.get(key, default) gives the default.
Missing == [kind |-> "missing"]

\* row.get(key, default)
RowGet(row, key, default) == IF row[key] = Missing THEN default ELSE row[key]

\* str(v) of a cell value.
PyStr(v) ==
  CASE v.kind = "str"  -> v.text
    [] v.kind = "nan"  -> <<"n","a","n">>
    [] v.kind = "None" -> <<"N","o","n","e">>

IsDigit(c) == Ord(c) >= 48 /\ Ord(c) <= 57

\* The number a text of decimal digits denotes.
RECURSIVE DigitsValue(_)
DigitsValue(s) ==
  IF s = << >> THEN 0
  ELSE 10 * DigitsValue(SubSeq(s, 1, Len(s) - 1)) + (Ord(s[Len(s)]) - 48)

\* float(v): a number is itself; a str is stripped and read as decimal
\* digits, and raises ValueError when it is not a number; None raises
\* TypeError.  [ok |-> FALSE] stands for the exception.
PyFloat(v) ==
  CASE v.kind = "float" -> [ok |-> TRUE, val |-> v.val]
    [] v.kind = "str" ->
         LET t == Strip(v.text)
         IN  IF t # << >> /\ \A i \in 1..Len(t) : IsDigit(t[i])
             THEN [ok |-> TRUE, val |-> DigitsValue(t)]
             ELSE [ok |-> FALSE]
    [] OTHER -> [ok |-> FALSE]

\* How a block of a function body ends: it returns a value, it raises an
\* exception out of the function, or control passes to the next statement.
Return(v) == [outcome |-> "return", ret |-> v]
Raise == [outcome |-> "raise"]
Pass == [outcome |-> "pass"]

USD == "USD"

\* AnnualBranch with the try / except left out: a failed float() leaves
\* the function as an exception.
AnnualBranchUnguarded(salary_low, salary_high) ==
  IF NotNa(salary_low) /\ NotNa(salary_high)
  THEN LET lo == PyFloat(salary_low)
           hi == PyFloat(salary_high)
       IN  IF lo.ok /\ hi.ok
           THEN Return(<<Float(lo.val), Float(hi.val), USD>>)
           ELSE Raise
  ELSE Pass

\* Lines 69-73: the annual pair, inside try / bare except.
AnnualBranch(salary_low, salary_high) ==
  IF NotNa(salary_low) /\ NotNa(salary_high)
  THEN LET lo == PyFloat(salary_low)
           hi == PyFloat(salary_high)
       IN  IF lo.ok /\ hi.ok
           THEN Return(<<Float(lo.val), Float(hi.val), USD>>)
           ELSE Pass                      \* except: pass
  ELSE Pass

\* Annualize with the two period tests in the other order.
AnnualizeMonthFirst(amount, pay_period) ==
  IF Contains(pay_period, <<"m","o","n","t","h">>) THEN amount * 12
  ELSE IF Contains(pay_period, <<"h","o","u","r">>) THEN amount * 40 * 52
  ELSE amount

\* Lines 82-89: the conversion of one periodic amount to a yearly one.
Annualize(amount, pay_period) ==
  IF Contains(pay_period, <<"h","o","u","r">>) THEN amount * 40 * 52
  ELSE IF Contains(pay_period, <<"m","o","n","t","h">>) THEN amount * 12
  ELSE amount

\* Lines 76-93: the periodic pair, inside try / bare except.
PayBranch(pay_low, pay_high, pay_period) ==
  IF NotNa(pay_low) /\ NotNa(pay_high)
  THEN LET lo == PyFloat(pay_low)
           hi == PyFloat(pay_high)
       IN  IF lo.ok /\ hi.ok
           THEN Return(<<Float(Annualize(lo.val, pay_period)),
                         Float(Annualize(hi.val, pay_period)), USD>>)
           ELSE Pass                      \* except: pass
  ELSE Pass

\* parse_salary_from_fields(row): the outcome of the call.
parse_salary_from_fields(row) ==
  LET salary_low  == RowGet(row, "salary_low", None)
      salary_high == RowGet(row, "salary_high", None)
      pay_low     == RowGet(row, "pay_low", None)
      pay_high    == RowGet(row, "pay_high", None)
      pay_period  == Lower(PyStr(RowGet(row, "pay_period", Str(<< >>))))
      annual      == AnnualBranch(salary_low, salary_high)
      periodic    == PayBranch(pay_low, pay_high, pay_period)
  IN  IF annual.outcome # "pass" THEN annual
      ELSE IF periodic.outcome # "pass" THEN periodic
      ELSE Return(<<None, None, USD>>)

----------------------------------------------------------------------------
(* parse_location                                                          *)

\* REMOTE_KEYWORDS: substrings that mark a location as remote.
REMOTE_KEYWORDS ==
  <<
    <<"r","e","m","o","t","e">>, <<"w","o","r","k"," ","f","r","o","m"," ","h","o","m","e">>,
    <<"w","f","h">>, <<"t","e","l","e","c","o","m","m","u","t","e">>,
    <<"v","i","r","t","u","a","l">>, <<"a","n","y","w","h","e","r","e">>,
    <<"d","i","s","t","r","i","b","u","t","e","d">>,
    <<"w","o","r","k","-","f","r","o","m","-","h","o","m","e">>,
    <<"h","o","m","e","-","b","a","s","e","d">>,
    <<"r","e","m","o","t","e"," ","p","o","s","i","t","i","o","n">>,
    <<"r","e","m","o","t","e"," ","o","p","p","o","r","t","u","n","i","t","y">>,
    <<"f","u","l","l","y"," ","r","e","m","o","t","e">>,
    <<"1","0","0","%"," ","r","e","m","o","t","e">>
  >>

USA == "USA"

\* Line 113: any(keyword in location_str.lower() for keyword in REMOTE_KEYWORDS)
HasRemoteKeyword(text) ==
  \E k \in 1..Len(REMOTE_KEYWORDS) : Contains(Lower(text), REMOTE_KEYWORDS[k])

\* ParseCityState with the strip() of the two segments left out.
ParseCityStateUnstripped(text) ==
  LET parts == Split(text)
  IN  IF Len(parts) >= 2
      THEN <<Str(parts[1]), Str(parts[2]), USA, FALSE>>
      ELSE <<Str(text), None, USA, FALSE>>

\* Lines 118-126: the 'City, ST' split of a stripped text with no remote keyword.
ParseCityState(text) ==
  LET parts == Split(text)
  IN  IF Len(parts) >= 2
      THEN <<Str(Strip(parts[1])), Str(Strip(parts[2])), USA, FALSE>>
      ELSE <<Str(text), None, USA, FALSE>>

\* parse_location with the comma split tried before the remote test.
parse_location_split_first(location_str) ==
  IF IsNa(location_str) THEN <<None, None, USA, FALSE>>
  ELSE LET text == Strip(PyStr(location_str))
       IN  IF Len(Split(text)) >= 2 THEN ParseCityState(text)
           ELSE IF HasRemoteKeyword(text)
           THEN <<Str(<<"R","e","m","o","t","e">>), None, USA, TRUE>>
           ELSE ParseCityState(text)

\* parse_location(location_str): (city, state, country, is_remote).
parse_location(location_str) ==
  IF IsNa(location_str) THEN <<None, None, USA, FALSE>>
  ELSE LET text == Strip(PyStr(location_str))
       IN  IF HasRemoteKeyword(text)
           THEN <<Str(<<"R","e","m","o","t","e">>), None, USA, TRUE>>
           ELSE ParseCityState(text)

----------------------------------------------------------------------------
(* derive_seniority, categorize_job_title                                  *)

\* JOB_TITLE_GROUPS: job category -> title triggers, in declaration order.
JOB_TITLE_GROUPS ==
  <<
    [label |-> "Data Analyst", keywords |-> <<
        <<"d","a","t","a"," ","a","n","a","l","y","s","t">>,
        <<"b","u","s","i","n","e","s","s"," ","a","n","a","l","y","s","t">>,
        <<"a","n","a","l","y","t","i","c","s"," ","a","n","a","l","y","s","t">>,
        <<"m","a","r","k","e","t","i","n","g"," ","a","n","a","l","y","s","t">>,
        <<"f","i","n","a","n","c","i","a","l"," ","a","n","a","l","y","s","t">>,
        <<"p","r","o","d","u","c","t"," ","a","n","a","l","y","s","t">>,
        <<"r","e","p","o","r","t","i","n","g"," ","a","n","a","l","y","s","t">>,
        <<"i","n","s","i","g","h","t","s"," ","a","n","a","l","y","s","t">> >>],
    [label |-> "Data Scientist", keywords |-> <<
        <<"d","a","t","a"," ","s","c","i","e","n","t","i","s","t">>,
        <<"m","a","c","h","i","n","e"," ","l","e","a","r","n","i","n","g"," ","s","c","i","e","n","t","i","s","t">>,
        <<"r","e","s","e","a","r","c","h"," ","s","c","i","e","n","t","i","s","t">>,
        <<"a","p","p","l","i","e","d"," ","s","c","i","e","n","t","i","s","t">>,
        <<"q","u","a","n","t","i","t","a","t","i","v","e"," ","a","n","a","l","y","s","t">>,
        <<"s","t","a","t","i","s","t","i","c","i","a","n">> >>],
    [label |-> "Data Engineer", keywords |-> <<
        <<"d","a","t","a"," ","e","n","g","i","n","e","e","r">>,
        <<"e","t","l"," ","d","e","v","e","l","o","p","e","r">>,
        <<"b","i","g"," ","d","a","t","a"," ","e","n","g","i","n","e","e","r">>,
        <<"p","l","a","t","f","o","r","m"," ","e","n","g","i","n","e","e","r">>,
        <<"p","i","p","e","l","i","n","e"," ","e","n","g","i","n","e","e","r">>,
        <<"d","a","t","a"," ","w","a","r","e","h","o","u","s","e"," ","e","n","g","i","n","e","e","r">> >>],
    [label |-> "Analytics Engineer", keywords |-> <<
        <<"a","n","a","l","y","t","i","c","s"," ","e","n","g","i","n","e","e","r">>,
        <<"b","i"," ","e","n","g","i","n","e","e","r">>,
        <<"d","a","t","a"," ","a","n","a","l","y","t","i","c","s"," ","e","n","g","i","n","e","e","r">> >>],
    [label |-> "BI Analyst", keywords |-> <<
        <<"b","i"," ","a","n","a","l","y","s","t">>,
        <<"b","u","s","i","n","e","s","s"," ","i","n","t","e","l","l","i","g","e","n","c","e"," ","a","n","a","l","y","s","t">>,
        <<"b","i"," ","d","e","v","e","l","o","p","e","r">>,
        <<"t","a","b","l","e","a","u"," ","d","e","v","e","l","o","p","e","r">>,
        <<"p","o","w","e","r"," ","b","i"," ","d","e","v","e","l","o","p","e","r">>,
        <<"l","o","o","k","e","r"," ","a","n","a","l","y","s","t">> >>],
    [label |-> "ML Engineer", keywords |-> <<
        <<"m","a","c","h","i","n","e"," ","l","e","a","r","n","i","n","g"," ","e","n","g","i","n","e","e","r">>,
        <<"m","l"," ","e","n","g","i","n","e","e","r">>,
        <<"m","l","o","p","s"," ","e","n","g","i","n","e","e","r">>,
        <<"a","i"," ","e","n","g","i","n","e","e","r">>,
        <<"d","e","e","p"," ","l","e","a","r","n","i","n","g"," ","e","n","g","i","n","e","e","r">> >>],
    [label |-> "Data Manager", keywords |-> <<
        <<"d","a","t","a"," ","m","a","n","a","g","e","r">>,
        <<"a","n","a","l","y","t","i","c","s"," ","m","a","n","a","g","e","r">>,
        <<"d","a","t","a"," ","s","c","i","e","n","c","e"," ","m","a","n","a","g","e","r">>,
        <<"b","i"," ","m","a","n","a","g","e","r">>,
        <<"d","i","r","e","c","t","o","r"," ","o","f">>,
        <<"h","e","a","d"," ","o","f"," ","d","a","t","a">>,
        <<"c","h","i","e","f"," ","d","a","t","a"," ","o","f","f","i","c","e","r">>,
        <<"v","p"," ","o","f"," ","d","a","t","a">>, <<"v","p"," ","d","a","t","a">> >>]
  >>

\* SENIORITY_KEYWORDS: seniority level -> title triggers, in declaration order.
SENIORITY_KEYWORDS ==
  <<
    [label |-> "Junior", keywords |-> <<
        <<"j","u","n","i","o","r">>, <<"j","r">>, <<"j","r",".">>, <<"e","n","t","r","y">>,
        <<"e","n","t","r","y","-","l","e","v","e","l">>,
        <<"a","s","s","o","c","i","a","t","e">>, <<" ","i"," ">>, <<"i","n","t","e","r","n">>,
        <<"e","n","t","r","y"," ","l","e","v","e","l">> >>],
    [label |-> "Mid-level", keywords |-> <<
        <<" ","i","i"," ">>, <<"m","i","d","-","l","e","v","e","l">>,
        <<"m","i","d"," ","l","e","v","e","l">>,
        <<"i","n","t","e","r","m","e","d","i","a","t","e">> >>],
    [label |-> "Senior", keywords |-> <<
        <<"s","e","n","i","o","r">>, <<"s","r">>, <<"s","r",".">>, <<" ","i","i","i"," ">>,
        <<"l","e","a","d">>, <<"p","r","i","n","c","i","p","a","l">>, <<"s","t","a","f","f">>,
        <<"e","x","p","e","r","t">> >>],
    [label |-> "Management", keywords |-> <<
        <<"m","a","n","a","g","e","r">>, <<"d","i","r","e","c","t","o","r">>,
        <<"h","e","a","d"," ","o","f">>, <<"v","p">>,
        <<"v","i","c","e"," ","p","r","e","s","i","d","e","n","t">>, <<"c","h","i","e","f">>,
        <<"c","t","o">>, <<"c","d","o">>, <<"e","x","e","c","u","t","i","v","e">> >>]
  >>

\* any(keyword in title_lower for keyword in keywords)
AnyKeywordIn(keywords, title_lower) ==
  \E k \in 1..Len(keywords) : Contains(title_lower, keywords[k])

\* ClassifyFrom that keeps going after a match: the last matching entry
\* decides.
RECURSIVE ClassifyLastMatch(_, _, _, _)
ClassifyLastMatch(table, i, title_lower, default) ==
  IF i > Len(table) THEN default
  ELSE LET rest == ClassifyLastMatch(table, i + 1, title_lower, default)
       IN  IF AnyKeywordIn(table[i].keywords, title_lower)
              /\ \A j \in (i + 1)..Len(table) : ~AnyKeywordIn(table[j].keywords, title_lower)
           THEN table[i].label
           ELSE rest

\* The for loop of both classifiers: walk the table from entry i on in
\* declaration order and return the label of the first entry with a
\* matching keyword; the default when the loop ends.
RECURSIVE ClassifyFrom(_, _, _, _)
ClassifyFrom(table, i, title_lower, default) ==
  IF i > Len(table) THEN default
  ELSE IF AnyKeywordIn(table[i].keywords, title_lower) THEN table[i].label
  ELSE ClassifyFrom(table, i + 1, title_lower, default)

\* derive_seniority on the title padded with a space at both ends.
derive_seniority_padded(job_title) ==
  IF IsNa(job_title) THEN "Mid-level"
  ELSE ClassifyFrom(SENIORITY_KEYWORDS, 1,
                    <<" ">> \o Lower(PyStr(job_title)) \o <<" ">>, "Mid-level")

\* derive_seniority(job_title)
derive_seniority(job_title) ==
  IF IsNa(job_title) THEN "Mid-level"
  ELSE ClassifyFrom(SENIORITY_KEYWORDS, 1, Lower(PyStr(job_title)), "Mid-level")

\* categorize_job_title(job_title)
categorize_job_title(job_title) ==
  IF IsNa(job_title) THEN "Other"
  ELSE ClassifyFrom(JOB_TITLE_GROUPS, 1, Lower(PyStr(job_title)), "Other")

----------------------------------------------------------------------------
(* extract_skills_from_description                                         *)

\* SKILLS_DICT: skill category -> skill names, in declaration order.
SKILLS_DICT ==
  <<
    [category |-> "Programming Languages", skills |-> <<
        <<"P","y","t","h","o","n">>, <<"R">>, <<"S","Q","L">>, <<"J","a","v","a">>,
        <<"S","c","a","l","a">>, <<"C","+","+">>, <<"C","#">>,
        <<"J","a","v","a","S","c","r","i","p","t">>, <<"J","u","l","i","a">>,
        <<"M","A","T","L","A","B">>, <<"S","A","S">>, <<"P","e","r","l">>, <<"R","u","b","y">>,
        <<"G","o">>, <<"R","u","s","t">>, <<"P","H","P">>, <<"V","B","A">> >>],
    [category |-> "Databases", skills |-> <<
        <<"M","y","S","Q","L">>, <<"P","o","s","t","g","r","e","S","Q","L">>,
        <<"M","o","n","g","o","D","B">>, <<"C","a","s","s","a","n","d","r","a">>,
        <<"R","e","d","i","s">>, <<"O","r","a","c","l","e">>,
        <<"S","Q","L"," ","S","e","r","v","e","r">>, <<"S","Q","L","i","t","e">>,
        <<"D","y","n","a","m","o","D","B">>, <<"B","i","g","Q","u","e","r","y">>,
        <<"S","n","o","w","f","l","a","k","e">>, <<"R","e","d","s","h","i","f","t">>,
        <<"M","a","r","i","a","D","B">>, <<"N","e","o","4","j">>,
        <<"E","l","a","s","t","i","c","s","e","a","r","c","h">>,
        <<"T","e","r","a","d","a","t","a">> >>],
    [category |-> "BI Tools", skills |-> <<
        <<"T","a","b","l","e","a","u">>, <<"P","o","w","e","r"," ","B","I">>,
        <<"L","o","o","k","e","r">>, <<"Q","l","i","k","V","i","e","w">>,
        <<"Q","l","i","k"," ","S","e","n","s","e">>, <<"S","i","s","e","n","s","e">>,
        <<"D","o","m","o">>, <<"M","e","t","a","b","a","s","e">>,
        <<"C","h","a","r","t","i","o">>,
        <<"M","o","d","e"," ","A","n","a","l","y","t","i","c","s">>,
        <<"S","A","P"," ","B","u","s","i","n","e","s","s","O","b","j","e","c","t","s">>,
        <<"M","i","c","r","o","S","t","r","a","t","e","g","y">>, <<"C","o","g","n","o","s">>,
        <<"O","B","I","E","E">> >>],
    [category |-> "Cloud Platforms", skills |-> <<
        <<"A","W","S">>, <<"A","z","u","r","e">>, <<"G","C","P">>,
        <<"G","o","o","g","l","e"," ","C","l","o","u","d">>,
        <<"I","B","M"," ","C","l","o","u","d">>,
        <<"O","r","a","c","l","e"," ","C","l","o","u","d">>,
        <<"D","a","t","a","b","r","i","c","k","s">>, <<"S","n","o","w","f","l","a","k","e">>,
        <<"H","e","r","o","k","u">>, <<"D","i","g","i","t","a","l","O","c","e","a","n">> >>],
    [category |-> "Data Engineering", skills |-> <<
        <<"S","p","a","r","k">>, <<"H","a","d","o","o","p">>, <<"K","a","f","k","a">>,
        <<"A","i","r","f","l","o","w">>, <<"H","i","v","e">>, <<"P","r","e","s","t","o">>,
        <<"F","l","i","n","k">>, <<"B","e","a","m">>, <<"L","u","i","g","i">>,
        <<"P","r","e","f","e","c","t">>, <<"d","b","t">>, <<"F","i","v","e","t","r","a","n">>,
        <<"T","a","l","e","n","d">>, <<"I","n","f","o","r","m","a","t","i","c","a">>,
        <<"N","i","F","i">>, <<"S","t","i","t","c","h">>,
        <<"M","a","t","i","l","l","i","o","n">> >>],
    [category |-> "Machine Learning", skills |-> <<
        <<"T","e","n","s","o","r","F","l","o","w">>, <<"P","y","T","o","r","c","h">>,
        <<"K","e","r","a","s">>, <<"S","c","i","k","i","t","-","l","e","a","r","n">>,
        <<"s","c","i","k","i","t","-","l","e","a","r","n">>, <<"X","G","B","o","o","s","t">>,
        <<"L","i","g","h","t","G","B","M">>, <<"H","2","O">>, <<"M","L","f","l","o","w">>,
        <<"K","u","b","e","f","l","o","w">>, <<"S","a","g","e","M","a","k","e","r">>,
        <<"A","u","t","o","M","L">>, <<"R","a","n","d","o","m"," ","F","o","r","e","s","t">>,
        <<"N","e","u","r","a","l"," ","N","e","t","w","o","r","k">>,
        <<"D","e","e","p"," ","L","e","a","r","n","i","n","g">>,
        <<"M","a","c","h","i","n","e"," ","L","e","a","r","n","i","n","g">>, <<"M","L">> >>],
    [category |-> "Analytics Tools", skills |-> <<
        <<"E","x","c","e","l">>, <<"G","o","o","g","l","e"," ","S","h","e","e","t","s">>,
        <<"J","u","p","y","t","e","r">>, <<"R","S","t","u","d","i","o">>,
        <<"S","t","a","t","a">>, <<"S","P","S","S">>, <<"A","l","t","e","r","y","x">>,
        <<"K","n","i","m","e">>, <<"R","a","p","i","d","M","i","n","e","r">>,
        <<"G","o","o","g","l","e"," ","A","n","a","l","y","t","i","c","s">>,
        <<"M","i","x","p","a","n","e","l">>, <<"A","m","p","l","i","t","u","d","e">>,
        <<"S","e","g","m","e","n","t">> >>],
    [category |-> "Data Visualization", skills |-> <<
        <<"D","3",".","j","s">>, <<"P","l","o","t","l","y">>,
        <<"M","a","t","p","l","o","t","l","i","b">>, <<"S","e","a","b","o","r","n">>,
        <<"g","g","p","l","o","t","2">>, <<"B","o","k","e","h">>, <<"S","h","i","n","y">>,
        <<"D","a","s","h">>, <<"S","t","r","e","a","m","l","i","t">>,
        <<"H","i","g","h","c","h","a","r","t","s">>, <<"C","h","a","r","t",".","j","s">> >>],
    [category |-> "Version Control", skills |-> <<
        <<"G","i","t">>, <<"G","i","t","H","u","b">>, <<"G","i","t","L","a","b">>,
        <<"B","i","t","b","u","c","k","e","t">>, <<"S","V","N">> >>],
    [category |-> "Statistics", skills |-> <<
        <<"S","t","a","t","i","s","t","i","c","s">>,
        <<"S","t","a","t","i","s","t","i","c","a","l">>,
        <<"A","/","B"," ","T","e","s","t","i","n","g">>,
        <<"H","y","p","o","t","h","e","s","i","s"," ","T","e","s","t","i","n","g">>,
        <<"R","e","g","r","e","s","s","i","o","n">>,
        <<"T","i","m","e"," ","S","e","r","i","e","s">>, <<"B","a","y","e","s","i","a","n">>,
        <<"E","x","p","e","r","i","m","e","n","t","a","l"," ","D","e","s","i","g","n">>,
        <<"P","r","e","d","i","c","t","i","v","e"," ","M","o","d","e","l","i","n","g">>,
        <<"F","o","r","e","c","a","s","t","i","n","g">> >>],
    [category |-> "Big Data", skills |-> <<
        <<"B","i","g"," ","D","a","t","a">>, <<"D","a","t","a"," ","L","a","k","e">>,
        <<"D","a","t","a"," ","W","a","r","e","h","o","u","s","e">>, <<"E","T","L">>,
        <<"E","L","T">>, <<"D","a","t","a"," ","P","i","p","e","l","i","n","e">> >>],
    [category |-> "Other Skills", skills |-> <<
        <<"D","o","c","k","e","r">>, <<"K","u","b","e","r","n","e","t","e","s">>,
        <<"L","i","n","u","x">>, <<"B","a","s","h">>, <<"A","P","I">>, <<"R","E","S","T">>,
        <<"N","o","S","Q","L">>, <<"A","g","i","l","e">>, <<"S","c","r","u","m">>,
        <<"C","I","/","C","D">>, <<"J","e","n","k","i","n","s">> >>]
  >>

\* \w of a Python str pattern, on ASCII: letters, digits and the underscore.
WordTable == [c \in DOMAIN OrdTable |->
                \/ (OrdTable[c] >= 48 /\ OrdTable[c] <= 57)
                \/ (OrdTable[c] >= 65 /\ OrdTable[c] <= 90)
                \/ (OrdTable[c] >= 97 /\ OrdTable[c] <= 122)
                \/ c = "_"]

\* Whether text has a word character at index p (none outside the text).
WordAt(text, p) == p >= 1 /\ p <= Len(text) /\ WordTable[text[p]]

\* \b between text[p] and text[p + 1], p \in 0..Len(text): a word character
\* on exactly one side.
Boundary(text, p) == WordAt(text, p) # WordAt(text, p + 1)

\* SearchWord with the two \b left out of the pattern: a plain substring
\* search.
SearchWordUnbounded(literal, text) ==
  \E i \in 0..(Len(text) - Len(literal)) :
     \A j \in 1..Len(literal) : text[i + j] = literal[j]

\* Lines 169-170: re.search(r'\b' + re.escape(literal) + r'\b', text); the
\* escaped literal matches itself, character for character.
SearchWord(literal, text) ==
  \E i \in 0..(Len(text) - Len(literal)) :
     /\ \A j \in 1..Len(literal) : text[i + j] = literal[j]
     /\ Boundary(text, i)
     /\ Boundary(text, i + Len(literal))

\* The skills of every category, in the order the two for loops visit them
\* (a skill listed under two categories is visited twice).
RECURSIVE SkillsFrom(_)
SkillsFrom(c) ==
  IF c > Len(SKILLS_DICT) THEN << >> ELSE SKILLS_DICT[c].skills \o SkillsFrom(c + 1)

AllSkills == SkillsFrom(1)

\* The positions of AllSkills, in visiting order.
SkillIndexes == [i \in 1..Len(AllSkills) |-> i]

\* skill.lower() of every visited skill.
AllSkillsLower == [i \in 1..Len(AllSkills) |-> Lower(AllSkills[i])]

\* FoundSkills with the description searched as written, not lowercased.
FoundSkillsCaseSensitive(description) ==
  LET Found(i) == SearchWord(AllSkillsLower[i], PyStr(description))
      hits == SelectSeq(SkillIndexes, Found)
  IN  [k \in 1..Len(hits) |-> AllSkills[hits[k]]]

\* Lines 162-171: found_skills when the loops end: the visited skills whose
\* pattern is found, in visiting order.
FoundSkills(description) ==
  LET description_lower == Lower(PyStr(description))
      Found(i) == SearchWord(AllSkillsLower[i], description_lower)
      hits == SelectSeq(SkillIndexes, Found)
  IN  [k \in 1..Len(hits) |-> AllSkills[hits[k]]]

\* set(list)
ToSet(list) == {list[i] : i \in 1..Len(list)}

\* The lists list(set) can be: the elements of the set, each once, in the
\* iteration order of the set.  That order follows the str hashes, which
\* CPython salts per process, so every order is possible.
ListsOfSet(S) ==
  {p \in [1..Cardinality(S) -> S] : \A i, j \in 1..Cardinality(S) : p[i] = p[j] => i = j}

\* extract_skills_from_description returning found_skills as it is, without
\* list(set(...)).
extract_skills_with_repeats(description) ==
  IF IsNa(description) THEN {<< >>}
  ELSE {FoundSkills(description)}

\* extract_skills_from_description(description): the lists the call may
\* return.
extract_skills_from_description(description) ==
  IF IsNa(description) THEN {<< >>}
  ELSE ListsOfSet(ToSet(FoundSkills(description)))

----------------------------------------------------------------------------
(* State                                                                   *)

VARIABLES
  pc,               \* the step the run is at
  row,              \* the DataFrame row handed to parse_salary_from_fields
  salary_result,    \* the outcome of parse_salary_from_fields(row)
  location_str,     \* the 'location' cell handed to parse_location
  location_result,  \* parse_location(location_str)
  job_title,        \* the 'job_title' cell handed to the two classifiers
  seniority_level,  \* derive_seniority(job_title)
  job_category,     \* categorize_job_title(job_title)
  job_description,  \* the 'job_description' column, one cell per posting
  skills_list,      \* the 'skills_list' column, one list per posting
  proc,             \* two runs of main over the same job_description column
  df,               \* the DataFrame of main: one record per posting
  tables,           \* the dimension, bridge and fact tables main has built
  raised,           \* the exception that ended main, "none" while there is none
  source_columns,   \* the column names of the CSV file, in file order
  columns,          \* df.columns after normalize_column_names
  files,            \* the files under data/: what each holds, if it exists
  script            \* the running script: its local variables and exit status

vars == <<pc, row, salary_result, location_str, location_result, job_title,
          seniority_level, job_category, job_description, skills_list, proc,
          df, tables, raised, source_columns, columns, files, script>>

\* The value of a variable that a step has not yet set.
NotYet == [kind |-> "unset"]

salaryVars == <<row, salary_result>>
locationVars == <<location_str, location_result>>
titleVars == <<job_title, seniority_level, job_category>>
skillVars == <<job_description, skills_list>>
mainVars == <<df, tables, raised>>
columnVars == <<source_columns, columns>>
fileVars == <<files, script>>

SalaryIdle == row = NotYet /\ salary_result = NotYet
LocationIdle == location_str = NotYet /\ location_result = NotYet
TitleIdle == job_title = NotYet /\ seniority_level = NotYet /\ job_category = NotYet
SkillIdle == job_description = NotYet /\ skills_list = NotYet
ProcIdle == proc = NotYet
MainIdle == df = NotYet /\ tables = NotYet /\ raised = NotYet
ColumnIdle == source_columns = NotYet /\ columns = NotYet
FilesIdle == files = NotYet /\ script = NotYet

----------------------------------------------------------------------------
(* Salary Normalizer: main, lines 210-215                                  *)

\* Cells of the low amount columns (salary_low, pay_low).
LowCells ==
  { Missing, NaN, Float(25), Float(50000), Str(<<"3","0">>), Str(<<"N","/","A">>) }

\* Cells of the high amount columns (salary_high, pay_high).
HighCells ==
  { NaN, Float(35), Float(70000), Str(<<" ","4","0">>), Str(<<"$","9","0","K">>) }

\* Cells of the pay_period column.
PeriodCells ==
  { Missing, NaN, Str(<< >>),
    Str(<<"H","o","u","r","l","y">>), Str(<<"H","O","U","R">>),
    Str(<<"M","o","n","t","h","l","y">>), Str(<<"p","e","r"," ","m","o","n","t","h">>),
    Str(<<"m","o","n","t","h","l","y"," ","o","r"," ","h","o","u","r","l","y">>),
    Str(<<"A","N","N","U","A","L">>), Str(<<"w","e","e","k","l","y">>) }

Rows ==
  [salary_low : LowCells, salary_high : HighCells,
   pay_low : LowCells, pay_high : HighCells, pay_period : PeriodCells]

InitSalary ==
  /\ pc = "parse_salary"
  /\ row \in Rows
  /\ salary_result = NotYet
  /\ LocationIdle /\ TitleIdle /\ SkillIdle /\ ProcIdle
  /\ MainIdle /\ ColumnIdle /\ FilesIdle

\* The lambda of df.apply at line 213, on one row.
ParseSalary ==
  /\ pc = "parse_salary"
  /\ salary_result' = parse_salary_from_fields(row)
  /\ pc' = "done"
  /\ UNCHANGED <<row, locationVars, titleVars, skillVars, proc,
               mainVars, columnVars, fileVars>>

NextSalary == ParseSalary

SpecSalary == InitSalary /\ [][NextSalary]_vars

----------------------------------------------------------------------------
(* Claims about the Salary Normalizer (under SpecSalary)                   *)

\* A cell that is non-null and converts to a number.
IsNumber(cell) == NotNa(cell) /\ PyFloat(cell).ok

\* The row's cell under key, None when the row has no such column.
Cell(key) == RowGet(row, key, None)

AnnualPairOk == IsNumber(Cell("salary_low")) /\ IsNumber(Cell("salary_high"))
PayPairOk == IsNumber(Cell("pay_low")) /\ IsNumber(Cell("pay_high"))

\* The factor the claim C2 states for a pay_period cell: 2080 when the
\* lowercased text contains 'hour', 12 when it contains 'month' and not
\* 'hour', 1 for everything else (an empty text and a null cell too).
PeriodFactor(cell) ==
  IF cell.kind # "str" THEN 1
  ELSE IF Contains(Lower(cell.text), <<"h","o","u","r">>) THEN 2080
  ELSE IF Contains(Lower(cell.text), <<"m","o","n","t","h">>) THEN 12
  ELSE 1

\* C1: parse_salary_from_fields never raises and follows a strict priority:
\* a numeric annual pair is returned as it is whatever the pay fields hold;
\* otherwise a numeric pay pair decides the result; otherwise the result is
\* (None, None, 'USD'); the currency is 'USD' in every case.
C1_SalaryPriority ==
  pc = "done" =>
    /\ salary_result.outcome = "return"
    /\ salary_result.ret[3] = "USD"
    /\ AnnualPairOk =>
         salary_result.ret = <<Float(PyFloat(Cell("salary_low")).val),
                               Float(PyFloat(Cell("salary_high")).val), "USD">>
    /\ (~AnnualPairOk /\ PayPairOk) =>
         \E f \in {1, 12, 2080} :
            salary_result.ret = <<Float(f * PyFloat(Cell("pay_low")).val),
                                  Float(f * PyFloat(Cell("pay_high")).val), "USD">>
    /\ (~AnnualPairOk /\ ~PayPairOk) => salary_result.ret = <<None, None, "USD">>

\* C1's case: the annual pair is present but one value is not a number, the
\* pay pair is numeric, and the call has returned the pay pair's amounts.
C1_Witness ==
  /\ pc = "done"
  /\ NotNa(Cell("salary_low")) /\ NotNa(Cell("salary_high")) /\ ~AnnualPairOk
  /\ PayPairOk
  /\ salary_result.outcome = "return"
  /\ salary_result.ret[1].kind = "float"

\* C2: when the periodic branch is taken, both amounts are multiplied by
\* 2080 for an 'hour' period, by 12 for a 'month' period without 'hour',
\* and are unchanged for any other period; pay (25, 35) with period
\* 'Hourly' gives (52000, 72800, 'USD').
C2_PeriodConversion ==
  (pc = "done" /\ ~AnnualPairOk /\ PayPairOk) =>
    /\ salary_result.ret =
         <<Float(PeriodFactor(row.pay_period) * PyFloat(Cell("pay_low")).val),
           Float(PeriodFactor(row.pay_period) * PyFloat(Cell("pay_high")).val), "USD">>
    /\ ( /\ row.pay_low = Float(25) /\ row.pay_high = Float(35)
         /\ row.pay_period = Str(<<"H","o","u","r","l","y">>) )
       => salary_result.ret = <<Float(52000), Float(72800), "USD">>

\* C2's case: the hourly fixture went through the periodic branch.
C2_Witness ==
  /\ pc = "done"
  /\ ~AnnualPairOk
  /\ row.pay_low = Float(25) /\ row.pay_high = Float(35)
  /\ row.pay_period = Str(<<"H","o","u","r","l","y">>)
  /\ salary_result.ret = <<Float(52000), Float(72800), "USD">>

----------------------------------------------------------------------------
(* Location Parser: main, lines 219-224                                    *)

\* Location texts named by the documentation.
SanFranciscoCA == <<"S","a","n"," ","F","r","a","n","c","i","s","c","o",","," ","C","A">>
FullyRemote == <<"1","0","0","%"," ","R","e","m","o","t","e">>
RemoteCA == <<"R","e","m","o","t","e",","," ","C","A">>
AustinTXUSA == <<"A","u","s","t","i","n",","," ","T","X",","," ","U","S","A">>

\* Pieces that location texts are put together from.
LocationParts ==
  { <<"R","e","m","o","t","e">>, <<"w","f","h">>, <<"V","i","r","t","u","a","l">>,
    <<"A","u","s","t","i","n">>, <<"C","A">>, <<",">>, <<" ">>, <<",", " ">> }

\* At most this many pieces make up a location text.
MaxLocationParts == 3

\* The texts made of exactly n pieces.
RECURSIVE LocationTexts(_)
LocationTexts(n) ==
  IF n = 0 THEN { << >> }
  ELSE { p \o t : p \in LocationParts, t \in LocationTexts(n - 1) }

Locations ==
  {NaN} \cup { Str(t) : t \in {SanFranciscoCA, FullyRemote, RemoteCA, AustinTXUSA} }
        \cup { Str(t) : t \in UNION { LocationTexts(n) : n \in 0..MaxLocationParts } }

InitLocation ==
  /\ pc = "parse_location"
  /\ location_str \in Locations
  /\ location_result = NotYet
  /\ SalaryIdle /\ TitleIdle /\ SkillIdle /\ ProcIdle
  /\ MainIdle /\ ColumnIdle /\ FilesIdle

\* The lambda of df.apply at line 222, on one row.
ParseLocation ==
  /\ pc = "parse_location"
  /\ location_result' = parse_location(location_str)
  /\ pc' = "done"
  /\ UNCHANGED <<location_str, salaryVars, titleVars, skillVars, proc,
               mainVars, columnVars, fileVars>>

NextLocation == ParseLocation

SpecLocation == InitLocation /\ [][NextLocation]_vars

----------------------------------------------------------------------------
(* Claims about the Location Parser (under SpecLocation)                   *)

RemoteResult == <<Str(<<"R","e","m","o","t","e">>), None, "USA", TRUE>>

\* The location text as given, lowercased, contains a remote keyword.
NamesRemote ==
  /\ location_str.kind = "str"
  /\ \E k \in 1..Len(REMOTE_KEYWORDS) : Contains(Lower(location_str.text), REMOTE_KEYWORDS[k])

\* C3: remote detection has precedence: every text whose lowercased form
\* contains a remote keyword gives ('Remote', None, 'USA', True), also
\* 'Remote, CA' and '100% Remote'; is_remote is True for no other input.
C3_RemotePrecedence ==
  pc = "done" =>
    /\ NamesRemote => location_result = RemoteResult
    /\ location_result[4] = TRUE => NamesRemote
    /\ location_str \in {Str(RemoteCA), Str(FullyRemote)} => location_result = RemoteResult

\* C3's case: 'Remote, CA', which has a comma, was parsed as remote.
C3_Witness ==
  /\ pc = "done"
  /\ location_str = Str(RemoteCA)
  /\ location_result = RemoteResult

\* C4: a null location and an empty or whitespace-only location text both
\* give (None, None, 'USA', False): city and state are None, not ''.
C4_EmptyLocationIsNull ==
  (pc = "done" /\ (IsNa(location_str) \/ Strip(location_str.text) = << >>)) =>
    location_result = <<None, None, "USA", FALSE>>

\* The commas of the location text, as indexes into it.
Commas == {i \in 1..Len(location_str.text) : location_str.text[i] = ","}

\* The first comma, and the end of the second segment (the second comma, or
\* the end of the text).
FirstComma == CHOOSE i \in Commas : \A j \in Commas : i <= j
SecondSegmentEnd ==
  LET later == {i \in Commas : i > FirstComma}
  IN  IF later = {} THEN Len(location_str.text)
      ELSE (CHOOSE i \in later : \A j \in later : i <= j) - 1

\* C5: a non-null text with no remote keyword is split on commas: with a
\* comma, city and state are the trimmed first and second segments; with
\* none, city is the whole trimmed text and state is None; country is 'USA'
\* and is_remote False; 'San Francisco, CA' gives ('San Francisco', 'CA',
\* 'USA', False).
C5_CityStateSplit ==
  (pc = "done" /\ location_str.kind = "str" /\ ~NamesRemote) =>
    /\ location_result[3] = "USA"
    /\ location_result[4] = FALSE
    /\ Commas # {} =>
         /\ location_result[1] = Str(Strip(SubSeq(location_str.text, 1, FirstComma - 1)))
         /\ location_result[2] =
              Str(Strip(SubSeq(location_str.text, FirstComma + 1, SecondSegmentEnd)))
    /\ Commas = {} =>
         /\ location_result[1] = Str(Strip(location_str.text))
         /\ location_result[2] = None
    /\ location_str = Str(SanFranciscoCA) =>
         location_result = <<Str(<<"S","a","n"," ","F","r","a","n","c","i","s","c","o">>),
                             Str(<<"C","A">>), "USA", FALSE>>

\* C5's case: 'San Francisco, CA' was split into city and state.
C5_Witness ==
  /\ pc = "done"
  /\ location_str = Str(SanFranciscoCA)
  /\ location_result[1] = Str(<<"S","a","n"," ","F","r","a","n","c","i","s","c","o">>)
  /\ location_result[2] = Str(<<"C","A">>)

----------------------------------------------------------------------------
(* Attribute Classifier: main, lines 230-231                               *)

\* Job titles named by the documentation.
SeniorDataScientist == <<"S","e","n","i","o","r"," ","D","a","t","a"," ","S","c","i","e","n","t","i","s","t">>
DataManager == <<"D","a","t","a"," ","M","a","n","a","g","e","r">>
DataAnalystI == <<"D","a","t","a"," ","A","n","a","l","y","s","t"," ","I">>

\* Pieces that job titles are put together from.
TitleParts ==
  { <<"S","e","n","i","o","r"," ">>,
    <<"D","a","t","a"," ","A","n","a","l","y","s","t"," ">>,
    <<"D","a","t","a"," ","M","a","n","a","g","e","r"," ">>,
    <<"E","n","g","i","n","e","e","r"," ">>,
    <<"B","I"," ">>,
    <<"I"," ">>,
    <<"I","I"," ">>,
    <<"A","n","a","l","y","t","i","c","s"," ">> }

\* At most this many pieces make up a job title.
MaxTitleParts == 3

\* The titles made of exactly n pieces.
RECURSIVE TitleTexts(_)
TitleTexts(n) ==
  IF n = 0 THEN { << >> }
  ELSE { p \o t : p \in TitleParts, t \in TitleTexts(n - 1) }

Titles ==
  {NaN} \cup { Str(t) : t \in {SeniorDataScientist, DataManager, DataAnalystI} }
        \cup { Str(t) : t \in UNION { TitleTexts(n) : n \in 0..MaxTitleParts } }

InitTitle ==
  /\ pc = "derive_seniority"
  /\ job_title \in Titles
  /\ seniority_level = NotYet
  /\ job_category = NotYet
  /\ SalaryIdle /\ LocationIdle /\ SkillIdle /\ ProcIdle
  /\ MainIdle /\ ColumnIdle /\ FilesIdle

\* Line 230: df['job_title'].apply(derive_seniority), on one row.
DeriveSeniority ==
  /\ pc = "derive_seniority"
  /\ seniority_level' = derive_seniority(job_title)
  /\ pc' = "categorize_job_title"
  /\ UNCHANGED <<job_title, job_category, salaryVars, locationVars, skillVars, proc,
               mainVars, columnVars, fileVars>>

\* Line 231: df['job_title'].apply(categorize_job_title), on one row.
CategorizeJobTitle ==
  /\ pc = "categorize_job_title"
  /\ job_category' = categorize_job_title(job_title)
  /\ pc' = "done"
  /\ UNCHANGED <<job_title, seniority_level, salaryVars, locationVars, skillVars, proc,
               mainVars, columnVars, fileVars>>

NextTitle == DeriveSeniority \/ CategorizeJobTitle

SpecTitle == InitTitle /\ [][NextTitle]_vars

----------------------------------------------------------------------------
(* Claims about the Attribute Classifier (under SpecTitle)                 *)

\* The label order the documentation states for each rule table.
SeniorityOrder == <<"Junior", "Mid-level", "Senior", "Management">>
CategoryOrder ==
  <<"Data Analyst", "Data Scientist", "Data Engineer", "Analytics Engineer",
    "BI Analyst", "ML Engineer", "Data Manager">>

\* The positions in order of the labels that have, in table, a trigger
\* occurring in the lowercased job title.
MatchingLabels(table, order) ==
  { n \in 1..Len(order) :
      \E e \in 1..Len(table) :
         /\ table[e].label = order[n]
         /\ \E k \in 1..Len(table[e].keywords) :
               Contains(Lower(job_title.text), table[e].keywords[k]) }

\* The first matching label in the stated order, the default when there is
\* none or the title is null.
FirstLabel(table, order, default) ==
  IF IsNa(job_title) \/ MatchingLabels(table, order) = {} THEN default
  ELSE order[CHOOSE n \in MatchingLabels(table, order) :
                \A m \in MatchingLabels(table, order) : n <= m]

\* C6: both classifiers return the first label, in declaration order, with
\* a trigger occurring in the lowercased title, even when a later label
\* matches too; the default ('Mid-level', 'Other') when none matches or the
\* title is null.
C6_FirstMatchWins ==
  /\ pc \in {"categorize_job_title", "done"} =>
       seniority_level = FirstLabel(SENIORITY_KEYWORDS, SeniorityOrder, "Mid-level")
  /\ pc = "done" =>
       job_category = FirstLabel(JOB_TITLE_GROUPS, CategoryOrder, "Other")

\* C6's case: a title with triggers of two seniority labels and of two job
\* categories has been classified by both classifiers.
C6_Witness ==
  /\ pc = "done"
  /\ job_title.kind = "str"
  /\ Cardinality(MatchingLabels(SENIORITY_KEYWORDS, SeniorityOrder)) >= 2
  /\ Cardinality(MatchingLabels(JOB_TITLE_GROUPS, CategoryOrder)) >= 2
  /\ seniority_level = "Senior"
  /\ job_category = "Data Analyst"

\* C7: derive_seniority gives 'Senior' for 'Senior Data Scientist',
\* 'Management' for 'Data Manager' and 'Mid-level' for 'Data Analyst I'
\* (the title ends with the numeral, so ' i ' does not occur in it).
C7_SeniorityFixtures ==
  pc \in {"categorize_job_title", "done"} =>
    /\ job_title = Str(SeniorDataScientist) => seniority_level = "Senior"
    /\ job_title = Str(DataManager) => seniority_level = "Management"
    /\ job_title = Str(DataAnalystI) =>
         /\ seniority_level = "Mid-level"
         /\ MatchingLabels(SENIORITY_KEYWORDS, SeniorityOrder) = {}

\* C7's case: 'Data Analyst I' has been classified.
C7_Witness ==
  /\ pc = "done"
  /\ job_title = Str(DataAnalystI)
  /\ seniority_level = "Mid-level"

----------------------------------------------------------------------------
(* Skill Extractor: main, line 239                                         *)

\* Descriptions named by the documentation.
MongoDBExperience == <<"M","o","n","g","o","D","B"," ","e","x","p","e","r","i","e","n","c","e">>
ProficientInPythonAndSQL == <<"P","r","o","f","i","c","i","e","n","t"," ","i","n"," ","P","y","t","h","o","n"," ","a","n","d"," ","S","Q","L">>
RegressionModels == <<"R","e","g","r","e","s","s","i","o","n"," ","m","o","d","e","l","s">>

\* Skill names the claims speak of, spelled as in SKILLS_DICT.
SkillMongoDB == <<"M","o","n","g","o","D","B">>
SkillGo == <<"G","o">>
SkillR == <<"R">>
SkillPython == <<"P","y","t","h","o","n">>
SkillSQL == <<"S","Q","L">>

\* Pieces that descriptions are put together from.
DescriptionParts ==
  { <<"M","o","n","g","o">>, <<"D","B">>, <<"G","o">>, <<"R">>, <<" ">>, <<"-">> }

\* At most this many pieces make up a description.
MaxDescriptionParts == 3

\* The descriptions made of exactly n pieces.
RECURSIVE DescriptionTexts(_)
DescriptionTexts(n) ==
  IF n = 0 THEN { << >> }
  ELSE { p \o t : p \in DescriptionParts, t \in DescriptionTexts(n - 1) }

Descriptions ==
  {NaN} \cup { Str(t) : t \in {MongoDBExperience, ProficientInPythonAndSQL, RegressionModels} }
        \cup { Str(t) : t \in UNION { DescriptionTexts(n) : n \in 0..MaxDescriptionParts } }

\* A description and the descriptions that differ from it in letter case only.
Recasings(d) ==
  IF IsNa(d) THEN {d} ELSE { d, Str(Lower(d.text)), Str(Upper(d.text)) }

\* Two postings whose descriptions differ in letter case at most.
InitSkills ==
  /\ pc = "extract_skills"
  /\ \E d \in Descriptions : \E e \in Recasings(d) : job_description = <<d, e>>
  /\ skills_list = NotYet
  /\ SalaryIdle /\ LocationIdle /\ TitleIdle /\ ProcIdle
  /\ MainIdle /\ ColumnIdle /\ FilesIdle

\* Line 239: df['skills_list'] = df['job_description'].apply(...).
ExtractSkills ==
  /\ pc = "extract_skills"
  /\ \E first \in extract_skills_from_description(job_description[1]) :
     \E second \in extract_skills_from_description(job_description[2]) :
        skills_list' = <<first, second>>
  /\ pc' = "done"
  /\ UNCHANGED <<job_description, salaryVars, locationVars, titleVars, proc,
               mainVars, columnVars, fileVars>>

NextSkills == ExtractSkills

SpecSkills == InitSkills /\ [][NextSkills]_vars

----------------------------------------------------------------------------
(* Claims about the Skill Extractor (under SpecSkills)                     *)

\* Letters and digits.
IsAlnum(c) ==
  \/ (Ord(c) >= 48 /\ Ord(c) <= 57)
  \/ (Ord(c) >= 65 /\ Ord(c) <= 90)
  \/ (Ord(c) >= 97 /\ Ord(c) <= 122)

\* Where the skill name occurs in the text, letter case ignored: the
\* indexes just before each occurrence.
Occurrences(skill, text) ==
  { i \in 0..(Len(text) - Len(skill)) :
      \A j \in 1..Len(skill) : Lower(text)[i + j] = Lower(skill)[j] }

\* The occurrence of n characters after index i is a part of a longer
\* alphanumeric word: it is alphanumeric throughout and a letter or digit
\* stands right before or right after it.
PartOfLongerWord(text, i, n) ==
  /\ \A j \in (i + 1)..(i + n) : IsAlnum(text[j])
  /\ \/ (i >= 1 /\ IsAlnum(text[i]))
     \/ (i + n + 1 <= Len(text) /\ IsAlnum(text[i + n + 1]))

\* The skill name occurs in the text, and only inside longer words.
OnlyInsideWords(skill, text) ==
  /\ Occurrences(skill, text) # {}
  /\ \A i \in Occurrences(skill, text) : PartOfLongerWord(text, i, Len(skill))

\* C8: a skill whose name occurs in the description only as a part of a
\* longer alphanumeric word is not reported; 'MongoDB experience' yields
\* 'MongoDB' and not 'Go', and 'Regression' without a standalone 'R' does
\* not yield 'R'.
C8_WordBoundary ==
  pc = "done" =>
    \A r \in 1..Len(job_description) :
       job_description[r].kind = "str" =>
         /\ \A s \in 1..Len(AllSkills) :
               OnlyInsideWords(AllSkills[s], job_description[r].text)
                 => AllSkills[s] \notin ToSet(skills_list[r])
         /\ job_description[r] = Str(MongoDBExperience) =>
               /\ SkillMongoDB \in ToSet(skills_list[r])
               /\ SkillGo \notin ToSet(skills_list[r])
         /\ job_description[r] = Str(RegressionModels) =>
               SkillR \notin ToSet(skills_list[r])

\* C8's case: 'MongoDB experience' has been searched; 'Go' occurs in it,
\* inside 'MongoDB' only, and 'MongoDB' is the one skill reported.
C8_Witness ==
  /\ pc = "done"
  /\ job_description[1] = Str(MongoDBExperience)
  /\ OnlyInsideWords(SkillGo, MongoDBExperience)
  /\ skills_list[1] = << SkillMongoDB >>

\* C9: two descriptions that differ in letter case only yield the same set
\* of labels, every label spelled as in SKILLS_DICT; 'Proficient in Python
\* and SQL' and 'proficient in python and sql' both yield {'Python', 'SQL'}.
C9_CaseInsensitive ==
  pc = "done" =>
    /\ ToSet(skills_list[1]) = ToSet(skills_list[2])
    /\ \A r \in 1..2 : ToSet(skills_list[r]) \subseteq ToSet(AllSkills)
    /\ job_description[1] = Str(ProficientInPythonAndSQL) =>
         \A r \in 1..2 : ToSet(skills_list[r]) = {SkillPython, SkillSQL}

\* C9's case: the documented pair of descriptions has been searched.
C9_Witness ==
  /\ pc = "done"
  /\ job_description[1] = Str(ProficientInPythonAndSQL)
  /\ job_description[2] = Str(Lower(ProficientInPythonAndSQL))
  /\ job_description[1] # job_description[2]
  /\ ToSet(skills_list[2]) = {SkillPython, SkillSQL}

----------------------------------------------------------------------------
(* Two runs of main over the same input: lines 239, 280-287, 299-307       *)

\* a < b for two str values: the order sorted() puts them in (code points).
StrLess(a, b) ==
  \E i \in 1..Len(b) :
     /\ \A j \in 1..(i - 1) : j <= Len(a) /\ a[j] = b[j]
     /\ \/ i = Len(a) + 1
        \/ (i <= Len(a) /\ Ord(a[i]) < Ord(b[i]))

\* sorted(S) for a set of str values.
Sorted(S) ==
  [k \in 1..Cardinality(S) |->
     CHOOSE x \in S : Cardinality({y \in S : StrLess(y, x)}) = k - 1]

\* DimSkill without sorted(): the skills in the order the postings name
\* them first.
DimSkillFirstSeen(column) ==
  LET all_skills == Concat(column)
      First(i) == \A j \in 1..(i - 1) : all_skills[j] # all_skills[i]
      kept == SelectSeq([i \in 1..Len(all_skills) |-> i], First)
  IN  [k \in 1..Len(kept) |-> all_skills[kept[k]]]

\* Lines 281-287: dim_skill as the list of its skill_name values; the
\* skill_id of a row is its position in the list.
DimSkill(column) ==
  Sorted(UNION { ToSet(column[r]) : r \in 1..Len(column) })

\* Line 304: the skill_id of the dim_skill row with this skill_name.
SkillId(dim_skill, skill) == CHOOSE k \in 1..Len(dim_skill) : dim_skill[k] = skill

\* Lines 303-305: the bridge rows of posting r, in skills_list order
\* (posting_id is r, line 248).
BridgeRowsOf(r, skills, dim_skill) ==
  [k \in 1..Len(skills) |-> [posting_id |-> r, skill_id |-> SkillId(dim_skill, skills[k])]]

\* Lines 300-307: bridge_posting_skill, posting after posting.
BridgeRows(column, dim_skill) ==
  Concat([r \in 1..Len(column) |-> BridgeRowsOf(r, column[r], dim_skill)])

\* The two runs, each a process of its own.
Runs == {1, 2}

\* Descriptions of the postings the two runs read.
RunDescriptions ==
  { NaN, Str(MongoDBExperience), Str(ProficientInPythonAndSQL), Str(RegressionModels) }

InitRuns ==
  /\ pc = "runs"
  /\ job_description \in [1..2 -> RunDescriptions]
  /\ skills_list = NotYet
  /\ proc = [p \in Runs |-> [pc |-> "extract_skills", skills_list |-> NotYet,
                             dim_skill |-> NotYet, bridge_posting_skill |-> NotYet]]
  /\ SalaryIdle /\ LocationIdle /\ TitleIdle
  /\ MainIdle /\ ColumnIdle /\ FilesIdle

\* Line 239 in run p.
RunExtractSkills(p) ==
  /\ proc[p].pc = "extract_skills"
  /\ \E first \in extract_skills_from_description(job_description[1]) :
     \E second \in extract_skills_from_description(job_description[2]) :
        proc' = [proc EXCEPT ![p].skills_list = <<first, second>>, ![p].pc = "dim_skill"]
  /\ UNCHANGED <<pc, job_description, skills_list, salaryVars, locationVars, titleVars,
               mainVars, columnVars, fileVars>>

\* Lines 280-287 in run p.
RunBuildDimSkill(p) ==
  /\ proc[p].pc = "dim_skill"
  /\ proc' = [proc EXCEPT ![p].dim_skill = DimSkill(proc[p].skills_list),
                          ![p].pc = "bridge_posting_skill"]
  /\ UNCHANGED <<pc, job_description, skills_list, salaryVars, locationVars, titleVars,
               mainVars, columnVars, fileVars>>

\* Lines 299-307 in run p.
RunBuildBridge(p) ==
  /\ proc[p].pc = "bridge_posting_skill"
  /\ proc' = [proc EXCEPT ![p].bridge_posting_skill =
                             BridgeRows(proc[p].skills_list, proc[p].dim_skill),
                          ![p].pc = "done"]
  /\ UNCHANGED <<pc, job_description, skills_list, salaryVars, locationVars, titleVars,
               mainVars, columnVars, fileVars>>

NextRuns ==
  \E p \in Runs : RunExtractSkills(p) \/ RunBuildDimSkill(p) \/ RunBuildBridge(p)

SpecRuns == InitRuns /\ [][NextRuns]_vars

----------------------------------------------------------------------------
(* Claim about the two runs (under SpecRuns)                               *)

\* C10: two runs on the same input give every posting the same skill list
\* in the same order, and the same sequence of bridge_posting_skill rows.
C10_DeterministicOutput ==
  (proc[1].pc = "done" /\ proc[2].pc = "done") =>
    /\ proc[1].skills_list = proc[2].skills_list
    /\ proc[1].bridge_posting_skill = proc[2].bridge_posting_skill

----------------------------------------------------------------------------
(* clean_company_size                                                      *)

\* COMPANY_SIZE_MAPPING: size text -> standard size, in declaration order.
COMPANY_SIZE_MAPPING ==
  <<
    [size |-> <<"1"," ","t","o"," ","5","0"," ","E","m","p","l","o","y","e","e","s">>,
     clean |-> <<"1","-","5","0">>],
    [size |-> <<"5","1"," ","t","o"," ","2","0","0"," ","E","m","p","l","o","y","e","e","s">>,
     clean |-> <<"5","1","-","2","0","0">>],
    [size |-> <<"2","0","1"," ","t","o"," ","5","0","0"," ","E","m","p","l","o","y","e","e","s">>,
     clean |-> <<"2","0","1","-","5","0","0">>],
    [size |-> <<"5","0","1"," ","t","o"," ","1","0","0","0"," ","E","m","p","l","o","y","e","e","s">>,
     clean |-> <<"5","0","1","-","1","0","0","0">>],
    [size |-> <<"1","0","0","1"," ","t","o"," ","5","0","0","0"," ","E","m","p","l","o","y","e","e","s">>,
     clean |-> <<"1","0","0","1","-","5","0","0","0">>],
    [size |-> <<"5","0","0","1"," ","t","o"," ","1","0","0","0","0"," ","E","m","p","l","o","y","e","e","s">>,
     clean |-> <<"5","0","0","1","-","1","0","0","0","0">>],
    [size |-> <<"1","0","0","0","0","+"," ","E","m","p","l","o","y","e","e","s">>,
     clean |-> <<"1","0","0","0","0","+">>],
    [size |-> <<"1"," ","t","o"," ","5","0"," ","e","m","p","l","o","y","e","e","s">>,
     clean |-> <<"1","-","5","0">>],
    [size |-> <<"5","1"," ","t","o"," ","2","0","0"," ","e","m","p","l","o","y","e","e","s">>,
     clean |-> <<"5","1","-","2","0","0">>],
    [size |-> <<"2","0","1"," ","t","o"," ","5","0","0"," ","e","m","p","l","o","y","e","e","s">>,
     clean |-> <<"2","0","1","-","5","0","0">>],
    [size |-> <<"5","0","1"," ","t","o"," ","1","0","0","0"," ","e","m","p","l","o","y","e","e","s">>,
     clean |-> <<"5","0","1","-","1","0","0","0">>],
    [size |-> <<"1","0","0","1"," ","t","o"," ","5","0","0","0"," ","e","m","p","l","o","y","e","e","s">>,
     clean |-> <<"1","0","0","1","-","5","0","0","0">>],
    [size |-> <<"5","0","0","1"," ","t","o"," ","1","0","0","0","0"," ","e","m","p","l","o","y","e","e","s">>,
     clean |-> <<"5","0","0","1","-","1","0","0","0","0">>],
    [size |-> <<"1","0","0","0","0","+"," ","e","m","p","l","o","y","e","e","s">>,
     clean |-> <<"1","0","0","0","0","+">>],
    [size |-> <<"U","n","k","n","o","w","n"," ","/"," ","N","o","n","-","A","p","p","l","i","c","a","b","l","e">>,
     clean |-> <<"U","n","k","n","o","w","n">>],
    [size |-> <<"U","n","k","n","o","w","n">>,
     clean |-> <<"U","n","k","n","o","w","n">>],
    [size |-> <<>>,
     clean |-> <<"U","n","k","n","o","w","n">>]
  >>

Unknown == <<"U","n","k","n","o","w","n">>

\* clean_company_size(size_str)
clean_company_size(size_str) ==
  IF IsNa(size_str) \/ size_str = Str(<<"-","1">>) \/ size_str = Str(Unknown)
  THEN Str(Unknown)
  ELSE LET text == Strip(PyStr(size_str))
           hits == {k \in 1..Len(COMPANY_SIZE_MAPPING) : COMPANY_SIZE_MAPPING[k].size = text}
       IN  IF hits # {}
           THEN Str(COMPANY_SIZE_MAPPING[CHOOSE k \in hits : TRUE].clean)
           ELSE Str(text)

----------------------------------------------------------------------------
(* pandas operations that main applies to its tables.  A table is a list   *)
(* of rows, a row a record from column name to cell.                       *)

\* The positions of a list, in order.
Indexes(list) == [i \in 1..Len(list) |-> i]

\* row[cols]: the row cut down to the columns cols.
Project(r, cols) == [c \in cols |-> r[c]]

\* DropDuplicates with the kept rows listed last-seen first.
DropDuplicatesReversed(rows, cols) ==
  LET First(i) == \A j \in 1..(i - 1) : Project(rows[j], cols) # Project(rows[i], cols)
      kept == SelectSeq(Indexes(rows), First)
  IN  [k \in 1..Len(kept) |-> rows[kept[Len(kept) + 1 - k]]]

\* DropDuplicates with keep='last': of the rows with equal cells under cols
\* the last one is kept.
DropDuplicatesKeepLast(rows, cols) ==
  LET Last(i) == \A j \in (i + 1)..Len(rows) : Project(rows[j], cols) # Project(rows[i], cols)
      kept == SelectSeq(Indexes(rows), Last)
  IN  [k \in 1..Len(kept) |-> rows[kept[k]]]

\* DataFrame.drop_duplicates(subset=cols).reset_index(drop=True): the rows
\* whose cells under cols were not seen in an earlier row, in their order;
\* two null cells count as equal.
DropDuplicates(rows, cols) ==
  LET First(i) == \A j \in 1..(i - 1) : Project(rows[j], cols) # Project(rows[i], cols)
      kept == SelectSeq(Indexes(rows), First)
  IN  [k \in 1..Len(kept) |-> rows[kept[k]]]

\* df.insert(0, id, range(1, len(df) + 1)): every row gets its position as
\* the new column id.
InsertIds(rows, id) == [k \in 1..Len(rows) |-> (id :> k) @@ rows[k]]

\* MergeLeft pairing the rows by position instead of by their cells under
\* cols: a left row with a match gets its own row number as id.
MergeLeftByPosition(left, right, cols, id) ==
  LET RowsFor(i) ==
        LET Same(k) == Project(right[k], cols) = Project(left[i], cols)
            hits == SelectSeq(Indexes(right), Same)
        IN  IF hits = << >> THEN << (id :> NaN) @@ left[i] >>
            ELSE [m \in 1..Len(hits) |-> (id :> i) @@ left[i]]
  IN  Concat([i \in 1..Len(left) |-> RowsFor(i)])

\* left.merge(right[[id] + cols], on=cols, how='left'): every left row, in
\* order, once for each right row with equal cells under cols (null cells
\* match null cells), with that row's id; once with a null id when no right
\* row matches.
MergeLeft(left, right, cols, id) ==
  LET RowsFor(r) ==
        LET Same(k) == Project(right[k], cols) = Project(r, cols)
            hits == SelectSeq(Indexes(right), Same)
        IN  IF hits = << >> THEN << (id :> NaN) @@ r >>
            ELSE [m \in 1..Len(hits) |-> (id :> right[hits[m]][id]) @@ r]
  IN  Concat([i \in 1..Len(left) |-> RowsFor(left[i])])

----------------------------------------------------------------------------
(* The steps of main on the DataFrame df                                   *)

\* Lines 212-215 on one row: the three salary columns.
WithSalary(r) ==
  LET ret == parse_salary_from_fields(r).ret
  IN  [salary_min |-> ret[1], salary_max |-> ret[2], salary_currency |-> ret[3]] @@ r

\* Lines 221-224 on one row: the four location columns (country is set anew).
WithLocation(r) ==
  LET loc == parse_location(r.location)
  IN  [city |-> loc[1], state |-> loc[2], country |-> loc[3], is_remote |-> loc[4]] @@ r

\* Lines 230-231 on one row.
WithAttributes(r) ==
  [seniority_level |-> derive_seniority(r.job_title),
   job_category |-> categorize_job_title(r.job_title)] @@ r

\* Lines 239-240 on one row, skills being what the call returned.
WithSkills(r, skills) == [skills_list |-> skills, skill_count |-> Len(skills)] @@ r

\* WithPostingId numbering from range(len(df)): the first posting gets 0.
WithPostingIdFromZero(r, i) ==
  [company_size_clean |-> clean_company_size(r.company_size), posting_id |-> i - 1] @@ r

\* Lines 245-248 on row number i.
WithPostingId(r, i) ==
  [company_size_clean |-> clean_company_size(r.company_size), posting_id |-> i] @@ r

JobKey == {"job_title", "job_category", "seniority_level"}
CompanyKey == {"company_name"}
LocationKey == {"city", "state", "country", "is_remote"}

\* Line 259: company_cols, the columns of dim_company (all are in df here).
CompanyCols ==
  {"company_name", "company_rating", "company_size_clean", "ownership_type",
   "industry", "sector", "revenue"}

\* Lines 254-255: dim_job.
DimJob(rows) ==
  InsertIds(DropDuplicates([i \in 1..Len(rows) |-> Project(rows[i], JobKey)], JobKey),
            "job_id")

\* DimCompany with drop_duplicates() over all of its columns.
DimCompanyAllColumns(rows) ==
  InsertIds(DropDuplicates([i \in 1..Len(rows) |-> Project(rows[i], CompanyCols)],
                           CompanyCols),
            "company_id")

\* Lines 259-262: dim_company.
DimCompany(rows) ==
  InsertIds(DropDuplicates([i \in 1..Len(rows) |-> Project(rows[i], CompanyCols)],
                           CompanyKey),
            "company_id")

\* Line 269: the region of a state.
Region(state) ==
  IF state \in {Str(<<"N","Y">>), Str(<<"M","A">>), Str(<<"P","A">>), Str(<<"N","J">>)}
  THEN "Northeast" ELSE "Other"

\* Lines 266-269: dim_location.
DimLocation(rows) ==
  LET dim == InsertIds(DropDuplicates([i \in 1..Len(rows) |-> Project(rows[i], LocationKey)],
                                      LocationKey),
                       "location_id")
  IN  [k \in 1..Len(dim) |-> [region |-> Region(dim[k].state)] @@ dim[k]]

\* Lines 273-277: dim_employment_type.
DimEmploymentType ==
  << [employment_type_id |-> 1, employment_type |-> "Full-time", work_arrangement |-> "On-site"],
     [employment_type_id |-> 2, employment_type |-> "Contract", work_arrangement |-> "Remote"],
     [employment_type_id |-> 3, employment_type |-> "Internship", work_arrangement |-> "Hybrid"] >>

\* get_skill_category without the return inside the loop: the last category
\* that lists the skill.
get_skill_category_last(skill) ==
  LET hits == {c \in 1..Len(SKILLS_DICT) :
                  \E k \in 1..Len(SKILLS_DICT[c].skills) : SKILLS_DICT[c].skills[k] = skill}
  IN  IF hits = {} THEN "Other"
      ELSE SKILLS_DICT[CHOOSE c \in hits : \A d \in hits : c >= d].category

\* Lines 290-294: get_skill_category(skill).
get_skill_category(skill) ==
  LET hits == {c \in 1..Len(SKILLS_DICT) :
                  \E k \in 1..Len(SKILLS_DICT[c].skills) : SKILLS_DICT[c].skills[k] = skill}
  IN  IF hits = {} THEN "Other"
      ELSE SKILLS_DICT[CHOOSE c \in hits : \A d \in hits : c <= d].category

\* Lines 281-296: dim_skill with its three columns.
DimSkillTable(rows) ==
  LET names == DimSkill([i \in 1..Len(rows) |-> rows[i].skills_list])
  IN  [k \in 1..Len(names) |->
         [skill_id |-> k, skill_name |-> names[k],
          skill_category |-> get_skill_category(names[k])]]

FactCols ==
  {"posting_id", "job_id", "company_id", "location_id", "salary_min", "salary_max",
   "salary_currency", "employment_type_id"}

\* Lines 314-351: fact_posting_clean.
FactPosting(rows, dim_job, dim_company, dim_location) ==
  LET with_job == MergeLeft(rows, dim_job, JobKey, "job_id")
      with_company == MergeLeft(with_job, dim_company, CompanyKey, "company_id")
      with_location == MergeLeft(with_company, dim_location, LocationKey, "location_id")
  IN  [i \in 1..Len(with_location) |->
         Project([employment_type_id |-> 1] @@ with_location[i], FactCols)]

----------------------------------------------------------------------------
(* main from line 210 on: one run over a DataFrame of postings             *)

SeniorDataEngineer == <<"S","e","n","i","o","r"," ","D","a","t","a"," ","E","n","g","i","n","e","e","r">>
TechCo == <<"T","e","c","h","C","o">>
DataInc == <<"D","a","t","a","I","n","c">>
Remote == <<"R","e","m","o","t","e">>
NewYorkNY == <<"N","e","w"," ","Y","o","r","k",","," ","N","Y">>
ExperienceWithPythonSparkAWS ==
  <<"E","x","p","e","r","i","e","n","c","e"," ","w","i","t","h"," ","P","y","t","h","o","n",
    ","," ","S","p","a","r","k",","," ","A","W","S">>
ExcelAndSQLRequired ==
  <<"E","x","c","e","l"," ","a","n","d"," ","S","Q","L"," ","r","e","q","u","i","r","e","d">>
SQLMoreSQL == <<"S","Q","L",","," ","m","o","r","e"," ","S","Q","L">>
SnowflakeAndSQL == <<"S","n","o","w","f","l","a","k","e"," ","a","n","d"," ","S","Q","L">>
TeamPlayer == <<"T","e","a","m"," ","p","l","a","y","e","r">>
Employees1001To5000 ==
  <<"1","0","0","1"," ","t","o"," ","5","0","0","0"," ","e","m","p","l","o","y","e","e","s">>
Employees51To200 == <<"5","1"," ","t","o"," ","2","0","0"," ","e","m","p","l","o","y","e","e","s">>
CompanyPrivate == <<"C","o","m","p","a","n","y"," ","-"," ","P","r","i","v","a","t","e">>
CompanyPublic == <<"C","o","m","p","a","n","y"," ","-"," ","P","u","b","l","i","c">>

\* A row of the DataFrame after normalize_column_names: its four text
\* columns, its salary columns and its company columns.
Posting(title, company, location, description, salary, company_attrs) ==
  [job_title |-> title, company_name |-> company, location |-> location,
   job_description |-> description] @@ salary @@ company_attrs

NoSalary ==
  [salary_low |-> NaN, salary_high |-> NaN, pay_low |-> NaN, pay_high |-> NaN,
   pay_period |-> NaN]
AnnualSalary == [NoSalary EXCEPT !.salary_low = Float(50000), !.salary_high = Float(70000)]
HourlyPay ==
  [NoSalary EXCEPT !.pay_low = Float(25), !.pay_high = Float(35),
                   !.pay_period = Str(<<"H","o","u","r","l","y">>)]
UnparsableSalary ==
  [NoSalary EXCEPT !.salary_low = Str(<<"N","/","A">>), !.salary_high = Str(<<"$","9","0","K">>)]

InformationTechnology ==
  <<"I","n","f","o","r","m","a","t","i","o","n"," ","T","e","c","h","n","o","l","o","g","y">>
Finance == <<"F","i","n","a","n","c","e">>
Banking == <<"B","a","n","k","i","n","g">>
Revenue1To5Billion ==
  <<"$","1"," ","t","o"," ","$","5"," ","b","i","l","l","i","o","n"," ","(","U","S","D",")">>

NoCompanyAttrs ==
  [company_rating |-> NaN, company_size |-> NaN, ownership_type |-> NaN,
   industry |-> NaN, sector |-> NaN, revenue |-> NaN]
LargePublic ==
  [company_rating |-> Float(4), company_size |-> Str(Employees1001To5000),
   ownership_type |-> Str(CompanyPublic), industry |-> Str(InformationTechnology),
   sector |-> Str(InformationTechnology), revenue |-> Str(Revenue1To5Billion)]
SmallPrivate ==
  [company_rating |-> Float(3), company_size |-> Str(Employees51To200),
   ownership_type |-> Str(CompanyPrivate), industry |-> Str(Banking),
   sector |-> Str(Finance), revenue |-> NaN]

\* The two postings of the end-to-end scenario.
ScenarioFirst ==
  Posting(Str(SeniorDataEngineer), Str(TechCo), Str(Remote),
          Str(ExperienceWithPythonSparkAWS), AnnualSalary, LargePublic)
ScenarioSecond ==
  Posting(Str(DataAnalystI), Str(TechCo), Str(NewYorkNY),
          Str(ExcelAndSQLRequired), HourlyPay, SmallPrivate)

\* The rows a DataFrame is made of here: the two scenario postings, a row
\* with every cell null, a row whose description names one skill twice,
\* a row whose description names a skill of two categories, and a row
\* with a skill-free description, an unparsable salary and no location.
Postings ==
  { ScenarioFirst, ScenarioSecond,
    Posting(NaN, NaN, NaN, NaN, NoSalary, NoCompanyAttrs),
    Posting(Str(DataAnalystI), Str(DataInc), Str(Remote), Str(SQLMoreSQL),
            NoSalary, SmallPrivate),
    Posting(Str(DataManager), Str(DataInc), Str(AustinTXUSA), Str(SnowflakeAndSQL),
            AnnualSalary, NoCompanyAttrs),
    Posting(Str(DataManager), NaN, NaN, Str(TeamPlayer), UnparsableSalary, LargePublic) }

\* df.columns when main reaches line 212.
PostingColumns == DOMAIN ScenarioFirst

\* The most rows a DataFrame has.
MaxPostings == 2

\* The DataFrames main is run on: zero to MaxPostings rows.
DataFrames == UNION { [1..n -> Postings] : n \in 0..MaxPostings }

\* The tables main builds; each is NotYet until its statement has run.
NoTables ==
  [dim_job |-> NotYet, dim_company |-> NotYet, dim_location |-> NotYet,
   dim_employment_type |-> NotYet, dim_skill |-> NotYet,
   bridge_posting_skill |-> NotYet, fact_posting_clean |-> NotYet, saved |-> {}]

otherVars == <<salaryVars, locationVars, titleVars, skillVars, proc, columnVars, fileVars>>

InitMain ==
  /\ pc = "parse_salaries"
  /\ df \in DataFrames
  /\ tables = NoTables
  /\ raised = "none"
  /\ SalaryIdle /\ LocationIdle /\ TitleIdle /\ SkillIdle /\ ProcIdle /\ ColumnIdle
  /\ FilesIdle

\* An uncaught exception ends main.
RaiseInMain(exception) ==
  /\ pc' = "raised"
  /\ raised' = exception
  /\ UNCHANGED <<df, tables>>

\* Lines 212-215.  On a DataFrame without rows, apply returns a copy of the
\* frame, and setting three columns from a frame of another number of
\* columns raises ValueError (Columns must be same length as key).
MainParseSalaries ==
  /\ pc = "parse_salaries"
  /\ IF Len(df) = 0 /\ Cardinality(PostingColumns) # Cardinality({"salary_min", "salary_max", "salary_currency"})
     THEN RaiseInMain("ValueError")
     ELSE /\ df' = [i \in 1..Len(df) |-> WithSalary(df[i])]
          /\ pc' = "parse_locations"
          /\ UNCHANGED <<tables, raised>>
  /\ UNCHANGED otherVars

\* Lines 221-224.
MainParseLocations ==
  /\ pc = "parse_locations"
  /\ df' = [i \in 1..Len(df) |-> WithLocation(df[i])]
  /\ pc' = "derive_attributes"
  /\ UNCHANGED <<tables, raised, otherVars>>

\* Lines 230-231.
MainDeriveAttributes ==
  /\ pc = "derive_attributes"
  /\ df' = [i \in 1..Len(df) |-> WithAttributes(df[i])]
  /\ pc' = "extract_skills"
  /\ UNCHANGED <<tables, raised, otherVars>>

\* The skills_list columns line 239 may give for these rows: one returned
\* list per row.
RECURSIVE SkillsColumns(_)
SkillsColumns(rows) ==
  IF rows = << >> THEN { << >> }
  ELSE { <<first>> \o rest :
           first \in extract_skills_from_description(Head(rows).job_description),
           rest \in SkillsColumns(Tail(rows)) }

\* Lines 239-240.
MainExtractSkills ==
  /\ pc = "extract_skills"
  /\ \E column \in SkillsColumns(df) :
        df' = [i \in 1..Len(df) |-> WithSkills(df[i], column[i])]
  /\ pc' = "posting_id"
  /\ UNCHANGED <<tables, raised, otherVars>>

\* Lines 245-248.
MainAssignPostingIds ==
  /\ pc = "posting_id"
  /\ df' = [i \in 1..Len(df) |-> WithPostingId(df[i], i)]
  /\ pc' = "dimensions"
  /\ UNCHANGED <<tables, raised, otherVars>>

\* Lines 254-296.
MainBuildDimensions ==
  /\ pc = "dimensions"
  /\ tables' = [tables EXCEPT !.dim_job = DimJob(df),
                              !.dim_company = DimCompany(df),
                              !.dim_location = DimLocation(df),
                              !.dim_employment_type = DimEmploymentType,
                              !.dim_skill = DimSkillTable(df)]
  /\ pc' = "bridge_posting_skill"
  /\ UNCHANGED <<df, raised, otherVars>>

\* The skill_name column of dim_skill.
SkillNames(dim_skill) == [k \in 1..Len(dim_skill) |-> dim_skill[k].skill_name]

\* Lines 300-307.
MainBuildBridge ==
  /\ pc = "bridge_posting_skill"
  /\ tables' = [tables EXCEPT !.bridge_posting_skill =
                  BridgeRows([i \in 1..Len(df) |-> df[i].skills_list],
                             SkillNames(tables.dim_skill))]
  /\ pc' = "fact_posting"
  /\ UNCHANGED <<df, raised, otherVars>>

\* Lines 314-351.
MainBuildFact ==
  /\ pc = "fact_posting"
  /\ tables' = [tables EXCEPT !.fact_posting_clean =
                  FactPosting(df, tables.dim_job, tables.dim_company, tables.dim_location)]
  /\ pc' = "save"
  /\ UNCHANGED <<df, raised, otherVars>>

\* Lines 358-371: the seven files written.
OutputFiles ==
  {"dim_job.csv", "dim_company.csv", "dim_location.csv", "dim_employment_type.csv",
   "dim_skill.csv", "bridge_posting_skill.csv", "job_postings_cleaned.csv"}

MainSave ==
  /\ pc = "save"
  /\ tables' = [tables EXCEPT !.saved = OutputFiles]
  /\ pc' = "summary"
  /\ UNCHANGED <<df, raised, otherVars>>

\* Lines 374-392.  bridge_posting_skill is pd.DataFrame(bridge_rows): with
\* no bridge row it has no column, and line 384 raises KeyError.
MainSummary ==
  /\ pc = "summary"
  /\ IF tables.bridge_posting_skill = << >>
     THEN RaiseInMain("KeyError")
     ELSE /\ pc' = "done"
          /\ UNCHANGED <<df, tables, raised>>
  /\ UNCHANGED otherVars

NextMain ==
  \/ MainParseSalaries
  \/ MainParseLocations
  \/ MainDeriveAttributes
  \/ MainExtractSkills
  \/ MainAssignPostingIds
  \/ MainBuildDimensions
  \/ MainBuildBridge
  \/ MainBuildFact
  \/ MainSave
  \/ MainSummary

SpecMain == InitMain /\ [][NextMain]_vars

----------------------------------------------------------------------------
(* Properties of main                                                      *)

\* The dimension tables exist: line 296 has run.
DimensionsBuilt ==
  pc \in {"bridge_posting_skill", "fact_posting", "save", "summary", "done"}
    \/ raised = "KeyError"

\* bridge_posting_skill exists: line 307 has run.
BridgeBuilt == pc \in {"fact_posting", "save", "summary", "done"} \/ raised = "KeyError"

\* fact_posting_clean exists: line 351 has run.
FactBuilt == pc \in {"save", "summary", "done"} \/ raised = "KeyError"

\* The posting that shows the tuple key under cols first.
FirstSeen(rows, cols, key) ==
  CHOOSE i \in 1..Len(rows) :
     /\ Project(rows[i], cols) = key
     /\ \A j \in 1..(i - 1) : Project(rows[j], cols) # key

\* dim holds the distinct tuples of rows under cols, ordered as rows shows
\* them first, and numbers them 1, 2, ... in its column id.
OneRowPerKey(dim, rows, cols, id) ==
  /\ {Project(dim[k], cols) : k \in 1..Len(dim)}
       = {Project(rows[i], cols) : i \in 1..Len(rows)}
  /\ \A k, l \in 1..Len(dim) :
        k < l => FirstSeen(rows, cols, Project(dim[k], cols))
                   < FirstSeen(rows, cols, Project(dim[l], cols))
  /\ \A k \in 1..Len(dim) : dim[k][id] = k

\* C11: dim_job, dim_company and dim_location each hold exactly one row per
\* distinct natural-key tuple of the postings, in order of first occurrence,
\* with surrogate keys 1..N by position.
C11_OneRowPerNaturalKey ==
  DimensionsBuilt =>
    /\ OneRowPerKey(tables.dim_job, df, JobKey, "job_id")
    /\ OneRowPerKey(tables.dim_company, df, CompanyKey, "company_id")
    /\ OneRowPerKey(tables.dim_location, df, LocationKey, "location_id")

\* Two postings of one company at two locations, after the dimensions exist.
C11_Witness ==
  /\ DimensionsBuilt
  /\ Len(df) = MaxPostings
  /\ Len(tables.dim_company) = 1
  /\ Len(tables.dim_location) > 1
  /\ Len(tables.dim_job) > 1

\* The matched skills of posting i, as skills_list holds them.
MatchedSet(i) == ToSet(df[i].skills_list)

\* The first posting that matched the skill.
FirstPostingWith(skill) ==
  CHOOSE i \in 1..Len(df) :
     skill \in MatchedSet(i) /\ \A j \in 1..(i - 1) : skill \notin MatchedSet(j)

\* The skill_id values are 1..N by position and the skill names are the
\* matched skills of all postings.
DenseSkillIds ==
  /\ \A k \in 1..Len(tables.dim_skill) : tables.dim_skill[k].skill_id = k
  /\ {tables.dim_skill[k].skill_name : k \in 1..Len(tables.dim_skill)}
       = UNION {MatchedSet(i) : i \in 1..Len(df)}

Resolves(dim, id, key_id, r, cols) ==
  \E k \in 1..Len(dim) : dim[k][id] = key_id /\ Project(dim[k], cols) = Project(r, cols)

\* C13: every foreign key of fact_posting is the surrogate key of the
\* dimension row whose natural key equals the posting's, null key
\* attributes included; a tuple without a dimension row gets a null key;
\* employment_type_id is always 1, a key of dim_employment_type.
C13_ForeignKeysResolve ==
  FactBuilt =>
    LET fact == tables.fact_posting_clean
    IN  /\ \A i \in 1..Len(df) :
              \E f \in 1..Len(fact) : fact[f].posting_id = df[i].posting_id
        /\ \A f \in 1..Len(fact) :
              \E i \in 1..Len(df) :
                 /\ df[i].posting_id = fact[f].posting_id
                 /\ Resolves(tables.dim_job, "job_id", fact[f].job_id, df[i], JobKey)
                 /\ Resolves(tables.dim_company, "company_id", fact[f].company_id,
                             df[i], CompanyKey)
                 /\ Resolves(tables.dim_location, "location_id", fact[f].location_id,
                             df[i], LocationKey)
                 /\ fact[f].employment_type_id = 1
        /\ \E k \in 1..Len(tables.dim_employment_type) :
              tables.dim_employment_type[k].employment_type_id = 1
        /\ \A i \in 1..Len(df) :
              MergeLeft(df, << >>, CompanyKey, "company_id")[i].company_id = NaN

\* A posting whose company_name and location are null has its keys resolved.
C13_Witness ==
  /\ FactBuilt
  /\ \E i \in 1..Len(df) :
        /\ df[i].company_name = NaN
        /\ df[i].city = None
        /\ tables.fact_posting_clean[i].company_id \in 1..Len(tables.dim_company)
        /\ tables.fact_posting_clean[i].location_id \in 1..Len(tables.dim_location)

\* C14: fact_posting has one row per posting, posting_id 1..M in input
\* order, each with the salary triple derived for that posting.
C14_OneFactRowPerPosting ==
  FactBuilt =>
    LET fact == tables.fact_posting_clean
    IN  /\ Len(fact) = Len(df)
        /\ \A i \in 1..Len(fact) :
              /\ fact[i].posting_id = i
              /\ <<fact[i].salary_min, fact[i].salary_max, fact[i].salary_currency>>
                   = parse_salary_from_fields(df[i]).ret

\* Two postings, the second paid by the hour: its fact row has the
\* annualized pay.
C14_Witness ==
  /\ FactBuilt
  /\ Len(df) = MaxPostings
  /\ \E i \in 1..Len(df) :
        /\ i > 1
        /\ df[i].pay_low = Float(25)
        /\ tables.fact_posting_clean[i].salary_min = Float(25 * 40 * 52)

RECURSIVE Sum(_)
Sum(numbers) == IF numbers = << >> THEN 0 ELSE Head(numbers) + Sum(Tail(numbers))

\* C15: bridge_posting_skill has exactly one row for each pair of a posting
\* and a skill of its matched set, with the skill's dim_skill key; no pair
\* is repeated, every skill_id is in dim_skill, and the row count is the sum
\* of the matched-set sizes.
C15_OneBridgeRowPerPair ==
  BridgeBuilt =>
    LET bridge == tables.bridge_posting_skill
        dim_skill == tables.dim_skill
        NameOf(id) == dim_skill[CHOOSE k \in 1..Len(dim_skill) : dim_skill[k].skill_id = id].skill_name
    IN  /\ \A b \in 1..Len(bridge) :
              /\ bridge[b].posting_id \in 1..Len(df)
              /\ \E k \in 1..Len(dim_skill) : dim_skill[k].skill_id = bridge[b].skill_id
              /\ NameOf(bridge[b].skill_id) \in MatchedSet(bridge[b].posting_id)
        /\ \A i \in 1..Len(df) : \A skill \in MatchedSet(i) :
              Cardinality({b \in 1..Len(bridge) :
                             /\ bridge[b].posting_id = df[i].posting_id
                             /\ NameOf(bridge[b].skill_id) = skill}) = 1
        /\ \A b, c \in 1..Len(bridge) : bridge[b] = bridge[c] => b = c
        /\ Len(bridge) = Sum([i \in 1..Len(df) |-> Cardinality(MatchedSet(i))])

\* A posting whose description names SQL twice and one that names
\* Snowflake, a skill of two categories, have their bridge rows.
C15_Witness ==
  /\ BridgeBuilt
  /\ \E i, j \in 1..Len(df) :
        /\ df[i].job_description = Str(SQLMoreSQL)
        /\ df[j].job_description = Str(SnowflakeAndSQL)
  /\ Len(tables.bridge_posting_skill) > Len(df)

SkillSpark == <<"S","p","a","r","k">>
SkillAWS == <<"A","W","S">>
SkillExcel == <<"E","x","c","e","l">>

\* df is the two postings of the scenario, in that order.
IsScenario ==
  /\ Len(df) = 2
  /\ df[1].job_title = Str(SeniorDataEngineer) /\ df[1].company_name = Str(TechCo)
  /\ df[1].location = Str(Remote)
  /\ df[1].job_description = Str(ExperienceWithPythonSparkAWS)
  /\ df[2].job_title = Str(DataAnalystI) /\ df[2].company_name = Str(TechCo)
  /\ df[2].location = Str(NewYorkNY)
  /\ df[2].job_description = Str(ExcelAndSQLRequired)

\* C16: the two scenario postings yield dim_company with 1 row, dim_location
\* with 2 rows, dim_skill with exactly Python, Spark, AWS, Excel and SQL,
\* bridge_posting_skill with 5 rows and fact_posting with 2 rows, each with
\* company_id 1.
C16_EndToEndScenario ==
  (FactBuilt /\ IsScenario) =>
    /\ Len(tables.dim_company) = 1
    /\ Len(tables.dim_location) = 2
    /\ Len(tables.dim_skill) = 5
    /\ {tables.dim_skill[k].skill_name : k \in 1..Len(tables.dim_skill)}
         = {SkillPython, SkillSpark, SkillAWS, SkillExcel, SkillSQL}
    /\ Len(tables.bridge_posting_skill) = 5
    /\ Len(tables.fact_posting_clean) = 2
    /\ \A f \in 1..Len(tables.fact_posting_clean) :
          tables.fact_posting_clean[f].company_id = 1

\* The run on the scenario has written its files.
C16_Witness == IsScenario /\ pc = "done" /\ tables.saved = OutputFiles

\* C17: with no input posting, every one of dim_job, dim_company,
\* dim_location, dim_employment_type and dim_skill has zero rows and the run
\* does not raise.
C17_EmptyInputEmptyDimensions ==
  Len(df) = 0 =>
    /\ raised = "none"
    /\ DimensionsBuilt =>
         /\ Len(tables.dim_job) = 0
         /\ Len(tables.dim_company) = 0
         /\ Len(tables.dim_location) = 0
         /\ Len(tables.dim_employment_type) = 0
         /\ Len(tables.dim_skill) = 0

\* C18: for every non-empty batch, also one where no posting matches a
\* skill, salaries are unparsable or locations are missing, main runs to
\* completion without an uncaught error.
C18_ToleratedGapsNeverAbort ==
  Len(df) > 0 => raised = "none"

----------------------------------------------------------------------------
(* normalize_column_names                                                  *)

\* COLUMN_MAPPING: source column name -> canonical column name, in declaration order.
COLUMN_MAPPING ==
  <<
    [source |-> <<"g","a","T","r","a","c","k","e","r","D","a","t","a",".","j","o","b","T","i","t","l","e">>,
     canonical |-> <<"j","o","b","_","t","i","t","l","e">>],
    [source |-> <<"h","e","a","d","e","r",".","j","o","b","T","i","t","l","e">>,
     canonical |-> <<"j","o","b","_","t","i","t","l","e","_","h","e","a","d","e","r">>],
    [source |-> <<"j","o","b",".","d","e","s","c","r","i","p","t","i","o","n">>,
     canonical |-> <<"j","o","b","_","d","e","s","c","r","i","p","t","i","o","n">>],
    [source |-> <<"h","e","a","d","e","r",".","p","a","y","H","i","g","h">>,
     canonical |-> <<"p","a","y","_","h","i","g","h">>],
    [source |-> <<"h","e","a","d","e","r",".","p","a","y","L","o","w">>,
     canonical |-> <<"p","a","y","_","l","o","w">>],
    [source |-> <<"h","e","a","d","e","r",".","p","a","y","P","e","r","i","o","d">>,
     canonical |-> <<"p","a","y","_","p","e","r","i","o","d">>],
    [source |-> <<"h","e","a","d","e","r",".","s","a","l","a","r","y","H","i","g","h">>,
     canonical |-> <<"s","a","l","a","r","y","_","h","i","g","h">>],
    [source |-> <<"h","e","a","d","e","r",".","s","a","l","a","r","y","L","o","w">>,
     canonical |-> <<"s","a","l","a","r","y","_","l","o","w">>],
    [source |-> <<"h","e","a","d","e","r",".","s","a","l","a","r","y","S","o","u","r","c","e">>,
     canonical |-> <<"s","a","l","a","r","y","_","s","o","u","r","c","e">>],
    [source |-> <<"g","a","T","r","a","c","k","e","r","D","a","t","a",".","e","m","p","N","a","m","e">>,
     canonical |-> <<"c","o","m","p","a","n","y","_","n","a","m","e">>],
    [source |-> <<"h","e","a","d","e","r",".","e","m","p","l","o","y","e","r","N","a","m","e">>,
     canonical |-> <<"c","o","m","p","a","n","y","_","n","a","m","e","_","h","e","a","d","e","r">>],
    [source |-> <<"r","a","t","i","n","g",".","s","t","a","r","R","a","t","i","n","g">>,
     canonical |-> <<"c","o","m","p","a","n","y","_","r","a","t","i","n","g">>],
    [source |-> <<"o","v","e","r","v","i","e","w",".","s","i","z","e">>,
     canonical |-> <<"c","o","m","p","a","n","y","_","s","i","z","e">>],
    [source |-> <<"o","v","e","r","v","i","e","w",".","t","y","p","e">>,
     canonical |-> <<"o","w","n","e","r","s","h","i","p","_","t","y","p","e">>],
    [source |-> <<"o","v","e","r","v","i","e","w",".","i","n","d","u","s","t","r","y">>,
     canonical |-> <<"i","n","d","u","s","t","r","y">>],
    [source |-> <<"o","v","e","r","v","i","e","w",".","s","e","c","t","o","r">>,
     canonical |-> <<"s","e","c","t","o","r">>],
    [source |-> <<"o","v","e","r","v","i","e","w",".","r","e","v","e","n","u","e">>,
     canonical |-> <<"r","e","v","e","n","u","e">>],
    [source |-> <<"o","v","e","r","v","i","e","w",".","f","o","u","n","d","e","d","Y","e","a","r">>,
     canonical |-> <<"c","o","m","p","a","n","y","_","f","o","u","n","d","e","d">>],
    [source |-> <<"g","a","T","r","a","c","k","e","r","D","a","t","a",".","l","o","c","a","t","i","o","n">>,
     canonical |-> <<"l","o","c","a","t","i","o","n">>],
    [source |-> <<"h","e","a","d","e","r",".","l","o","c","a","t","i","o","n">>,
     canonical |-> <<"l","o","c","a","t","i","o","n","_","h","e","a","d","e","r">>],
    [source |-> <<"o","v","e","r","v","i","e","w",".","h","q">>,
     canonical |-> <<"h","e","a","d","q","u","a","r","t","e","r","s">>],
    [source |-> <<"m","a","p",".","c","o","u","n","t","r","y">>,
     canonical |-> <<"c","o","u","n","t","r","y">>],
    [source |-> <<"m","a","p",".","l","a","t">>,
     canonical |-> <<"l","a","t","i","t","u","d","e">>],
    [source |-> <<"m","a","p",".","l","n","g">>,
     canonical |-> <<"l","o","n","g","i","t","u","d","e">>],
    [source |-> <<"h","e","a","d","e","r",".","e","a","s","y","A","p","p","l","y">>,
     canonical |-> <<"e","a","s","y","_","a","p","p","l","y">>],
    [source |-> <<"h","e","a","d","e","r",".","a","p","p","l","y","U","r","l">>,
     canonical |-> <<"a","p","p","l","i","c","a","t","i","o","n","_","u","r","l">>],
    [source |-> <<"h","e","a","d","e","r",".","p","o","s","t","e","d">>,
     canonical |-> <<"p","o","s","t","e","d","_","d","a","t","e">>],
    [source |-> <<"h","e","a","d","e","r",".","e","m","p","l","o","y","e","r","I","d">>,
     canonical |-> <<"e","m","p","l","o","y","e","r","_","i","d">>],
    [source |-> <<"g","a","T","r","a","c","k","e","r","D","a","t","a",".","j","o","b","I","d",".","l","o","n","g">>,
     canonical |-> <<"j","o","b","_","i","d","_","e","x","t","e","r","n","a","l">>],
    [source |-> <<"g","a","T","r","a","c","k","e","r","D","a","t","a",".","e","x","p","i","r","e","d">>,
     canonical |-> <<"i","s","_","e","x","p","i","r","e","d">>]
  >>


\* df.rename(columns=COLUMN_MAPPING) on one column name (line 40).
RenameColumn(name) ==
  LET hits == {k \in 1..Len(COLUMN_MAPPING) : COLUMN_MAPPING[k].source = name}
  IN  IF hits = {} THEN name ELSE COLUMN_MAPPING[CHOOSE k \in hits : TRUE].canonical

\* text.replace(old, new) for one-character old and new.
StrReplace(text, old, new) ==
  [i \in 1..Len(text) |-> IF text[i] = old THEN new ELSE text[i]]

\* A character of the class [a-z0-9_].
IsNameChar(c) ==
  \/ (Ord(c) >= Ord("a") /\ Ord(c) <= Ord("z"))
  \/ IsDigit(c)
  \/ c = "_"

\* re.sub('[^a-z0-9_]', '', text) (line 45).
StripNonNameChars(text) == SelectSeq(text, IsNameChar)

\* SecondaryName with the replacement of '-' (line 44) left out.
SecondaryNameKeepHyphen(name) ==
  StripNonNameChars(StrReplace(Lower(name), " ", "_"))

\* Lines 43-45 on one column name.
SecondaryName(name) ==
  StripNonNameChars(StrReplace(StrReplace(Lower(name), " ", "_"), "-", "_"))

\* normalize_column_names(df), as the list df.columns it leaves.
normalize_column_names(names) ==
  [i \in 1..Len(names) |-> SecondaryName(RenameColumn(names[i]))]

\* The keys of the flat vocabulary, each with its nested counterpart and
\* the canonical name of the pair.
FlatVocabulary ==
  <<
    [flat |-> <<"J","o","b"," ","T","i","t","l","e">>,
     nested |-> <<"g","a","T","r","a","c","k","e","r","D","a","t","a",".","j","o","b","T","i","t","l","e">>,
     canonical |-> <<"j","o","b","_","t","i","t","l","e">>],
    [flat |-> <<"C","o","m","p","a","n","y"," ","N","a","m","e">>,
     nested |-> <<"g","a","T","r","a","c","k","e","r","D","a","t","a",".","e","m","p","N","a","m","e">>,
     canonical |-> <<"c","o","m","p","a","n","y","_","n","a","m","e">>],
    [flat |-> <<"L","o","c","a","t","i","o","n">>,
     nested |-> <<"g","a","T","r","a","c","k","e","r","D","a","t","a",".","l","o","c","a","t","i","o","n">>,
     canonical |-> <<"l","o","c","a","t","i","o","n">>],
    [flat |-> <<"S","i","z","e">>,
     nested |-> <<"o","v","e","r","v","i","e","w",".","s","i","z","e">>,
     canonical |-> <<"c","o","m","p","a","n","y","_","s","i","z","e">>],
    [flat |-> <<"R","a","t","i","n","g">>,
     nested |-> <<"r","a","t","i","n","g",".","s","t","a","r","R","a","t","i","n","g">>,
     canonical |-> <<"c","o","m","p","a","n","y","_","r","a","t","i","n","g">>],
    [flat |-> <<"T","y","p","e"," ","o","f"," ","o","w","n","e","r","s","h","i","p">>,
     nested |-> <<"o","v","e","r","v","i","e","w",".","t","y","p","e">>,
     canonical |-> <<"o","w","n","e","r","s","h","i","p","_","t","y","p","e">>]
  >>

\* Column names outside both vocabularies.
OtherColumnNames ==
  { <<"S","a","l","a","r","y"," ","E","s","t","i","m","a","t","e">>,
    <<"E","a","s","y","-","A","p","p","l","y">>,
    <<"J","o","b"," ","I","D","#">>,
    <<"p","o","s","t","i","n","g","_","i","d">>,
    <<"R","e","v","e","n","u","e"," ","(","$",")">> }

\* The column names a CSV file is made of here.
ColumnNames ==
  {COLUMN_MAPPING[k].source : k \in 1..Len(COLUMN_MAPPING)}
    \cup {FlatVocabulary[k].flat : k \in 1..Len(FlatVocabulary)}
    \cup OtherColumnNames

\* The most columns a CSV file has.
MaxColumns == 2

\* The column lists of the CSV files: read_csv gives pairwise distinct names.
ColumnLists ==
  UNION { {names \in [1..n -> ColumnNames] :
             \A i, j \in 1..n : names[i] = names[j] => i = j} : n \in 0..MaxColumns }

InitColumns ==
  /\ pc = "normalize_column_names"
  /\ source_columns \in ColumnLists
  /\ columns = NotYet
  /\ SalaryIdle /\ LocationIdle /\ TitleIdle /\ SkillIdle /\ ProcIdle /\ MainIdle
  /\ FilesIdle

\* Line 208.
NormalizeColumnNames ==
  /\ pc = "normalize_column_names"
  /\ columns' = normalize_column_names(source_columns)
  /\ pc' = "normalized"
  /\ UNCHANGED <<source_columns, salaryVars, locationVars, titleVars, skillVars, proc,
               mainVars, fileVars>>

NextColumns == NormalizeColumnNames

SpecColumns == InitColumns /\ [][NextColumns]_vars

\* What one character of a name becomes: a capital its small letter, a space
\* or hyphen an underscore, a small letter, digit or underscore itself, and
\* any other character nothing.
CanonChar(c) ==
  IF Ord(c) >= Ord("A") /\ Ord(c) <= Ord("Z") THEN << Chr(Ord(c) + Ord("a") - Ord("A")) >>
  ELSE IF c \in {" ", "-"} THEN << "_" >>
  ELSE IF IsNameChar(c) THEN << c >>
  ELSE << >>

\* The name with every character replaced by what it becomes.
Canon(name) == Concat([i \in 1..Len(name) |-> CanonChar(name[i])])

\* The canonical name COLUMN_MAPPING gives the key.
MappedName(name) ==
  COLUMN_MAPPING[CHOOSE k \in 1..Len(COLUMN_MAPPING) : COLUMN_MAPPING[k].source = name].canonical

IsMappedKey(name) == \E k \in 1..Len(COLUMN_MAPPING) : COLUMN_MAPPING[k].source = name

\* C19: normalize_column_names keeps the number and order of the columns; a
\* key of COLUMN_MAPPING gets exactly its mapped name, every other key its
\* lowercased name with spaces and hyphens as underscores and the characters
\* outside [a-z0-9_] removed.
C19_PureRename ==
  pc = "normalized" =>
    /\ Len(columns) = Len(source_columns)
    /\ \A i \in 1..Len(columns) :
          columns[i] = IF IsMappedKey(source_columns[i])
                       THEN MappedName(source_columns[i])
                       ELSE Canon(source_columns[i])

\* A file with a mapped key after a key with a hyphen and a capital.
C19_Witness ==
  /\ pc = "normalized"
  /\ Len(source_columns) = MaxColumns
  /\ \E i, j \in 1..Len(source_columns) :
        /\ i < j
        /\ ~IsMappedKey(source_columns[i])
        /\ \E c \in 1..Len(source_columns[i]) : source_columns[i][c] = "-"
        /\ IsMappedKey(source_columns[j])
        /\ columns[j] # source_columns[j]

\* C20: each flat key is given the same canonical name as its nested
\* counterpart: job_title, company_name, location, company_size,
\* company_rating and ownership_type.
C20_FlatKeysResolve ==
  pc = "normalized" =>
    \A i \in 1..Len(columns) : \A k \in 1..Len(FlatVocabulary) :
       source_columns[i] \in {FlatVocabulary[k].flat, FlatVocabulary[k].nested}
         => columns[i] = FlatVocabulary[k].canonical

----------------------------------------------------------------------------
(* Properties of dim_company and dim_skill                                 *)

\* The columns of dim_company apart from its key: rating, size, ownership
\* type, industry, sector and revenue.
CompanyAttributes == CompanyCols \ CompanyKey

\* C21: the non-key attributes of each dim_company row are those of the
\* first posting in input order with that company_name; a later posting of
\* the same company with other attribute values adds no row and changes
\* nothing.
C21_FirstPostingAttributes ==
  DimensionsBuilt =>
    /\ \A k \in 1..Len(tables.dim_company) :
          LET first == FirstSeen(df, CompanyKey, Project(tables.dim_company[k], CompanyKey))
          IN  Project(tables.dim_company[k], CompanyAttributes)
                = Project(df[first], CompanyAttributes)
    /\ \A k, l \in 1..Len(tables.dim_company) :
          tables.dim_company[k].company_name = tables.dim_company[l].company_name => k = l

\* Two postings of one company that differ in every company attribute.
C21_Witness ==
  /\ DimensionsBuilt
  /\ Len(tables.dim_company) = 1
  /\ \E i, j \in 1..Len(df) :
        /\ i < j
        /\ df[i].company_name = df[j].company_name
        /\ \A c \in CompanyAttributes : df[i][c] # df[j][c]

\* The categories of SKILLS_DICT that list the skill, as positions.
CategoriesListing(skill) ==
  {c \in 1..Len(SKILLS_DICT) : skill \in ToSet(SKILLS_DICT[c].skills)}

SkillSnowflake == <<"S","n","o","w","f","l","a","k","e">>

\* C22: the skill names of dim_skill are exactly the union of the postings'
\* matched sets, each once; every skill_category is a category that lists
\* the skill, never 'Other', and the first such category in declaration
\* order when several list it.
C22_SkillCategories ==
  DimensionsBuilt =>
    LET dim_skill == tables.dim_skill
    IN  /\ {dim_skill[k].skill_name : k \in 1..Len(dim_skill)}
             = UNION {MatchedSet(i) : i \in 1..Len(df)}
        /\ \A k, l \in 1..Len(dim_skill) :
              dim_skill[k].skill_name = dim_skill[l].skill_name => k = l
        /\ \A k \in 1..Len(dim_skill) :
              /\ dim_skill[k].skill_category # "Other"
              /\ \E c \in CategoriesListing(dim_skill[k].skill_name) :
                    /\ dim_skill[k].skill_category = SKILLS_DICT[c].category
                    /\ \A d \in CategoriesListing(dim_skill[k].skill_name) : c <= d

\* Snowflake, listed under Databases and Cloud Platforms, is in dim_skill.
C22_Witness ==
  /\ DimensionsBuilt
  /\ Cardinality(CategoriesListing(SkillSnowflake)) > 1
  /\ \E k \in 1..Len(tables.dim_skill) :
        /\ tables.dim_skill[k].skill_name = SkillSnowflake
        /\ tables.dim_skill[k].skill_category = "Databases"

----------------------------------------------------------------------------
(* Standalone mentions of the taxonomy skills: lines 239, 157-173          *)

\* The descriptions that mention the skill on its own: its name alone,
\* between spaces, and followed by a comma or a full stop.
StandaloneMentions(skill) ==
  { skill, <<" ">> \o skill \o <<" ">>, skill \o <<",">>, skill \o <<".">> }

\* Every standalone mention of every skill of SKILLS_DICT.
MentionDescriptions ==
  UNION { {Str(t) : t \in StandaloneMentions(AllSkills[s])} : s \in 1..Len(AllSkills) }

\* Two postings: a standalone mention of a skill, and the same text in
\* some letter case.
InitMentions ==
  /\ pc = "extract_skills"
  /\ \E d \in MentionDescriptions : \E e \in Recasings(d) : job_description = <<d, e>>
  /\ skills_list = NotYet
  /\ SalaryIdle /\ LocationIdle /\ TitleIdle /\ ProcIdle
  /\ MainIdle /\ ColumnIdle /\ FilesIdle

SpecMentions == InitMentions /\ [][NextSkills]_vars

SkillCPlusPlus == <<"C","+","+">>
SkillCSharp == <<"C","#">>

\* C24: for every skill name of SKILLS_DICT, a description that is the name
\* alone, or the name between spaces or followed by punctuation, yields a
\* matched set with that skill, 'C++' and 'C#' included.
C24_StandaloneMentionMatches ==
  pc = "done" =>
    \A s \in 1..Len(AllSkills) :
       job_description[1].text \in StandaloneMentions(AllSkills[s])
         => AllSkills[s] \in ToSet(skills_list[1])

\* C25: the matched set of a posting never holds two labels that are equal
\* when letter case is ignored, so one mention gives one label, one
\* dim_skill row and one bridge row.
C25_NoCaseDuplicateLabels ==
  pc = "done" =>
    \A r \in 1..Len(skills_list) :
       /\ \A a, b \in ToSet(skills_list[r]) : Lower(a) = Lower(b) => a = b
       /\ LET dim_skill == DimSkill(<< skills_list[r] >>)
          IN  /\ \A k, l \in 1..Len(dim_skill) :
                    Lower(dim_skill[k]) = Lower(dim_skill[l]) => k = l
              /\ \A b, c \in 1..Len(skills_list[r]) :
                    Lower(skills_list[r][b]) = Lower(skills_list[r][c]) => b = c

----------------------------------------------------------------------------
(* Distinctness of the canonical names (under SpecColumns)                 *)

\* C26: from pairwise distinct source column names normalize_column_names
\* produces pairwise distinct canonical names, also for a file with keys of
\* both vocabularies or keys that differ in case, spaces, hyphens or
\* punctuation only.
C26_NoMergedFields ==
  pc = "normalized" =>
    /\ \A i, j \in 1..Len(source_columns) : source_columns[i] = source_columns[j] => i = j
    /\ \A i, j \in 1..Len(columns) : columns[i] = columns[j] => i = j

----------------------------------------------------------------------------
(* Step 1 (01_ingest_raw_files.py) and the start of step 2: the files      *)

\* What a path holds: nothing, a file of size zero, a file that read_csv
\* cannot parse, or a CSV file with a header line and these data rows (one
\* column: each row is the text of its cell).
Absent == [kind |-> "absent"]
EmptyFile == [kind |-> "empty"]
Garbled == [kind |-> "garbled"]
Csv(rows) == [kind |-> "csv", rows |-> rows]

\* Path.exists()
Exists(content) == content.kind # "absent"

\* An int64 cell.
Int64(n) == [kind |-> "int", val |-> n]

\* str(n) for 0 <= n < 100.
IntText(n) == IF n < 10 THEN <<Chr(48 + n)>> ELSE <<Chr(48 + (n \div 10)), Chr(48 + (n % 10))>>

\* Cell texts that read_csv takes as missing (some of its default na_values).
NA_VALUES == { << >>, <<"N","A">>, <<"N","a","N">>, <<"n","a","n">> }

\* The text of an integer, and the text of a float (in this model a whole
\* number followed by '.0').
IsIntText(t) == t # << >> /\ \A i \in 1..Len(t) : IsDigit(t[i])
IsFloatText(t) ==
  /\ Len(t) >= 3
  /\ t[Len(t) - 1] = "." /\ t[Len(t)] = "0"
  /\ IsIntText(SubSeq(t, 1, Len(t) - 2))

\* The column read_csv makes of the cell texts: int64 when every cell is an
\* integer, float64 when the cells are numbers and missing values, object
\* (str) otherwise; a missing cell is NaN.
ParseColumn(cells) ==
  IF \A i \in 1..Len(cells) : IsIntText(cells[i])
  THEN [i \in 1..Len(cells) |-> Int64(DigitsValue(cells[i]))]
  ELSE IF \A i \in 1..Len(cells) :
            cells[i] \in NA_VALUES \/ IsIntText(cells[i]) \/ IsFloatText(cells[i])
  THEN [i \in 1..Len(cells) |->
          IF cells[i] \in NA_VALUES THEN NaN
          ELSE IF IsIntText(cells[i]) THEN Float(DigitsValue(cells[i]))
          ELSE Float(DigitsValue(SubSeq(cells[i], 1, Len(cells[i]) - 2)))]
  ELSE [i \in 1..Len(cells) |-> IF cells[i] \in NA_VALUES THEN NaN ELSE Str(cells[i])]

\* The text to_csv writes for a cell.
FormatCell(v) ==
  CASE v.kind = "int"   -> IntText(v.val)
    [] v.kind = "float" -> IntText(v.val) \o <<".", "0">>
    [] v.kind = "nan"   -> << >>
    [] v.kind = "str"   -> v.text

\* A DataFrame, as the values of its column.
DataFrame(values) == [kind |-> "DataFrame", values |-> values]

\* pd.read_csv(path): the DataFrame, or an exception.
read_csv(content) ==
  CASE content.kind = "csv"     -> [ok |-> TRUE, df |-> DataFrame(ParseColumn(content.rows))]
    [] content.kind = "absent"  -> [ok |-> FALSE, exception |-> "FileNotFoundError"]
    [] content.kind = "empty"   -> [ok |-> FALSE, exception |-> "EmptyDataError"]
    [] content.kind = "garbled" -> [ok |-> FALSE, exception |-> "ParserError"]

\* df.to_csv(path, index=False): the file written.
to_csv(frame) == Csv([i \in 1..Len(frame.values) |-> FormatCell(frame.values[i])])

\* The cells of a raw file of n rows: row i holds the number i; with gaps,
\* the first cell is 'NA' and the second is empty.
CellTexts(n, gaps) ==
  [i \in 1..n |-> IF gaps /\ i = 1 THEN <<"N","A">>
                  ELSE IF gaps /\ i = 2 THEN << >>
                  ELSE IntText(i)]

\* validate_raw_file without the test of st_size.
validate_raw_file_exists_only(content) == Exists(content)

\* validate_raw_file(file_path)
validate_raw_file(content) ==
  IF ~Exists(content) THEN FALSE
  ELSE IF content.kind = "empty" THEN FALSE
  ELSE TRUE

IngestScript == "01_ingest_raw_files.py"
CleanScript == "02_clean_and_normalize_glassdoor.py"

\* The most data rows the raw CSV file has.
MaxRawRows == 2

\* data/raw/job_postings_raw.csv before step 1.
RawFiles == {Absent, EmptyFile, Garbled} \cup {Csv(CellTexts(n, gaps)) : n \in 0..MaxRawRows, gaps \in BOOLEAN}

\* data/interim/job_postings_raw_combined.csv before step 1: not there, or
\* left by an earlier run.
InterimFiles == {Absent} \cup {Csv(CellTexts(n, gaps)) : n \in 0..MaxRawRows, gaps \in BOOLEAN}

\* A script that has just started: nothing read, nothing written.
Started(name) ==
  [name |-> name, exit |-> "running", df |-> NotYet, read |-> {}, wrote |-> {},
   stages |-> {}]

InitSteps ==
  /\ pc = "validate_raw_file"
  /\ \E raw \in RawFiles : \E interim \in InterimFiles :
        files = [raw_csv |-> raw, output_csv |-> interim, output_dir |-> Absent]
  /\ script = Started(IngestScript)
  /\ SalaryIdle /\ LocationIdle /\ TitleIdle /\ SkillIdle /\ ProcIdle
  /\ MainIdle /\ ColumnIdle

stepOtherVars ==
  <<salaryVars, locationVars, titleVars, skillVars, proc, mainVars, columnVars>>

\* sys.exit(1)
Exit1 ==
  /\ pc' = "exited"
  /\ script' = [script EXCEPT !.exit = "exit 1"]
  /\ UNCHANGED files

\* 01 main, lines 159-160.
IngestValidate ==
  /\ script.name = IngestScript /\ pc = "validate_raw_file"
  /\ IF validate_raw_file(files.raw_csv)
     THEN pc' = "ingest_raw_csv" /\ UNCHANGED <<files, script>>
     ELSE Exit1
  /\ UNCHANGED stepOtherVars

\* 01 main, line 163: ingest_raw_csv, lines 74-81.
IngestRead ==
  /\ script.name = IngestScript /\ pc = "ingest_raw_csv"
  /\ LET result == read_csv(files.raw_csv)
     IN  IF result.ok
         THEN /\ script' = [script EXCEPT !.df = result.df,
                                          !.read = @ \cup {"raw_csv"}]
              /\ pc' = "display_data_info"
         ELSE /\ script' = [script EXCEPT !.exit = "exit 1", !.read = @ \cup {"raw_csv"}]
              /\ pc' = "exited"
  /\ UNCHANGED <<files, stepOtherVars>>

\* 01 main, line 166.
IngestDisplay ==
  /\ script.name = IngestScript /\ pc = "display_data_info"
  /\ pc' = "save_to_interim"
  /\ script' = [script EXCEPT !.stages = @ \cup {"display_data_info"}]
  /\ UNCHANGED <<files, stepOtherVars>>

\* 01 main, lines 169-174: save_to_interim, lines 135-140.
IngestSave ==
  /\ script.name = IngestScript /\ pc = "save_to_interim"
  /\ files' = [files EXCEPT !.output_csv = to_csv(script.df)]
  /\ script' = [script EXCEPT !.wrote = @ \cup {"output_csv"}, !.exit = "exit 0"]
  /\ pc' = "exited"
  /\ UNCHANGED stepOtherVars

\* Step 2 is started after step 1 has ended, however it ended.
StartClean ==
  /\ script.name = IngestScript /\ pc = "exited"
  /\ script' = Started(CleanScript)
  /\ pc' = "load"
  /\ UNCHANGED <<files, stepOtherVars>>

\* 02 main, lines 200-205: only FileNotFoundError is caught.
CleanLoad ==
  /\ script.name = CleanScript /\ pc = "load"
  /\ LET result == read_csv(files.output_csv)
     IN  IF result.ok
         THEN /\ script' = [script EXCEPT !.df = result.df,
                                          !.read = @ \cup {"input_csv"}]
              /\ pc' = "normalize_column_names"
         ELSE IF result.exception = "FileNotFoundError"
         THEN /\ script' = [script EXCEPT !.exit = "exit 1"]
              /\ pc' = "exited"
         ELSE /\ script' = [script EXCEPT !.exit = result.exception,
                                          !.read = @ \cup {"input_csv"}]
              /\ pc' = "exited"
  /\ UNCHANGED <<files, stepOtherVars>>

\* 02 main, line 208.
CleanNormalize ==
  /\ script.name = CleanScript /\ pc = "normalize_column_names"
  /\ script' = [script EXCEPT !.stages = @ \cup {"normalize_column_names"}]
  /\ pc' = "derive"
  /\ UNCHANGED <<files, stepOtherVars>>

\* 02 main, lines 210-352: the derivations and the tables; on a DataFrame
\* without rows line 212 raises ValueError.
CleanDerive ==
  /\ script.name = CleanScript /\ pc = "derive"
  /\ IF script.df.values = << >>
     THEN /\ script' = [script EXCEPT !.exit = "ValueError"]
          /\ pc' = "exited"
     ELSE /\ script' = [script EXCEPT !.stages = @ \cup {"derive", "tables"}]
          /\ pc' = "save"
  /\ UNCHANGED <<files, stepOtherVars>>

\* 02 main, lines 354-371.
CleanSave ==
  /\ script.name = CleanScript /\ pc = "save"
  /\ files' = [files EXCEPT !.output_dir = to_csv(script.df)]
  /\ script' = [script EXCEPT !.wrote = @ \cup {"output_dir"}]
  /\ pc' = "summary"
  /\ UNCHANGED stepOtherVars

\* 02 main, lines 373-392: line 384 raises KeyError when no posting has a
\* skill, which the cells of the rows decide.
CleanSummary ==
  /\ script.name = CleanScript /\ pc = "summary"
  /\ \E outcome \in {"exit 0", "KeyError"} : script' = [script EXCEPT !.exit = outcome]
  /\ pc' = "exited"
  /\ UNCHANGED <<files, stepOtherVars>>

NextSteps ==
  \/ IngestValidate
  \/ IngestRead
  \/ IngestDisplay
  \/ IngestSave
  \/ StartClean
  \/ CleanLoad
  \/ CleanNormalize
  \/ CleanDerive
  \/ CleanSave
  \/ CleanSummary

SpecSteps == InitSteps /\ [][NextSteps]_vars

\* The script has done nothing: read no file, run no stage, written no file.
NothingDone == script.df = NotYet /\ script.read = {} /\ script.stages = {} /\ script.wrote = {}

\* C23: when the raw CSV is missing or of size zero, step 1 exits with
\* failure without reading the data or writing the interim file; when the
\* interim CSV is missing, step 2 exits with failure before any column
\* normalization, derivation or table write.
C23_PreconditionFailuresStopEarly ==
  /\ (script.name = IngestScript /\ files.raw_csv \in {Absent, EmptyFile}) =>
        /\ NothingDone
        /\ pc \in {"validate_raw_file", "exited"}
        /\ pc = "exited" => script.exit = "exit 1"
  /\ (script.name = CleanScript /\ files.output_csv = Absent) =>
        /\ NothingDone
        /\ files.output_dir = Absent
        /\ pc \in {"load", "exited"}
        /\ pc = "exited" => script.exit = "exit 1"

\* Step 1 has failed on a raw file of size zero, and step 2, started
\* after it, has failed on the missing interim file.
C23_Witness ==
  /\ files.raw_csv = EmptyFile
  /\ files.output_csv = Absent
  /\ script.name = CleanScript
  /\ pc = "exited"
  /\ script.exit = "exit 1"

----------------------------------------------------------------------------
(* create_sample.py                                                        *)

SampleScript == "create_sample.py"

\* The most data rows job_postings_raw.csv has, and the most runs of the
\* script in a row.
MaxFullRows == 15
MaxSampleRuns == 2

\* job_postings_raw.csv before the first run.
FullFiles ==
  {Absent, EmptyFile} \cup {Csv(CellTexts(n, gaps)) : n \in 0..MaxFullRows, gaps \in BOOLEAN}

\* round(0.10 * n), as Python rounds: a half goes to the even neighbour.
RoundTenth(n) ==
  LET q == n \div 10
      r == n % 10
  IN  IF r < 5 THEN q
      ELSE IF r > 5 THEN q + 1
      ELSE IF q % 2 = 0 THEN q ELSE q + 1

\* The ways to take k of n rows, each once, in some order.
Selections(n, k) ==
  {s \in [1..k -> 1..n] : \A i, j \in 1..k : s[i] = s[j] => i = j}

\* The rows of the frame at the selected places.
Take(frame, s) == DataFrame([i \in 1..Len(s) |-> frame.values[s[i]]])

\* The frames df.sample(frac=0.10, random_state=42) can return: which rows
\* the seeded generator picks is left open.
Samples(frame) ==
  {Take(frame, s) : s \in Selections(Len(frame.values), RoundTenth(Len(frame.values)))}

\* The backup is written at every run.
BackupAlways(backup) == TRUE

\* Line 31: the backup is written when it does not exist.
BackupNeeded(backup) == ~Exists(backup)

\* A run that has just started; first_raw and before remember what
\* job_postings_raw.csv held before the first run and what the three files
\* held when this run started.
SampleStarted(run, first_raw, before) ==
  [name |-> SampleScript, exit |-> "running", run |-> run,
   df_full |-> NotYet, df_sample |-> NotYet,
   first_raw |-> first_raw, before |-> before]

InitSample ==
  /\ pc = "check_exists"
  /\ \E full \in FullFiles :
        /\ files = [full_file |-> full, backup_file |-> Absent, sample_file |-> Absent]
        /\ script = SampleStarted(1, full, files)
  /\ SalaryIdle /\ LocationIdle /\ TitleIdle /\ SkillIdle /\ ProcIdle
  /\ MainIdle /\ ColumnIdle

\* Lines 20-24.
SampleCheckExists ==
  /\ script.name = SampleScript /\ pc = "check_exists"
  /\ IF ~Exists(files.full_file)
     THEN /\ script' = [script EXCEPT !.exit = "exit 1"]
          /\ pc' = "exited"
     ELSE /\ pc' = "read_csv"
          /\ UNCHANGED script
  /\ UNCHANGED <<files, stepOtherVars>>

\* Line 27: an exception of read_csv ends the script.
SampleLoad ==
  /\ script.name = SampleScript /\ pc = "read_csv"
  /\ LET result == read_csv(files.full_file)
     IN  IF result.ok
         THEN /\ script' = [script EXCEPT !.df_full = result.df]
              /\ pc' = "backup"
         ELSE /\ script' = [script EXCEPT !.exit = result.exception]
              /\ pc' = "exited"
  /\ UNCHANGED <<files, stepOtherVars>>

\* Lines 30-36.
SampleBackup ==
  /\ script.name = SampleScript /\ pc = "backup"
  /\ IF BackupNeeded(files.backup_file)
     THEN files' = [files EXCEPT !.backup_file = to_csv(script.df_full)]
     ELSE UNCHANGED files
  /\ pc' = "sample"
  /\ UNCHANGED <<script, stepOtherVars>>

\* Line 40.
SampleDraw ==
  /\ script.name = SampleScript /\ pc = "sample"
  /\ \E df_sample \in Samples(script.df_full) :
        script' = [script EXCEPT !.df_sample = df_sample]
  /\ pc' = "save_sample"
  /\ UNCHANGED <<files, stepOtherVars>>

\* Line 45.
SampleSave ==
  /\ script.name = SampleScript /\ pc = "save_sample"
  /\ files' = [files EXCEPT !.sample_file = to_csv(script.df_sample)]
  /\ pc' = "replace"
  /\ UNCHANGED <<script, stepOtherVars>>

\* Lines 50-51, and the end of the script.
SampleReplace ==
  /\ script.name = SampleScript /\ pc = "replace"
  /\ files' = [files EXCEPT !.full_file = to_csv(script.df_sample)]
  /\ script' = [script EXCEPT !.exit = "exit 0"]
  /\ pc' = "exited"
  /\ UNCHANGED stepOtherVars

\* The script is run again.
SampleRunAgain ==
  /\ script.name = SampleScript /\ pc = "exited"
  /\ script.run < MaxSampleRuns
  /\ script' = SampleStarted(script.run + 1, script.first_raw, files)
  /\ pc' = "check_exists"
  /\ UNCHANGED <<files, stepOtherVars>>

NextSample ==
  \/ SampleCheckExists
  \/ SampleLoad
  \/ SampleBackup
  \/ SampleDraw
  \/ SampleSave
  \/ SampleReplace
  \/ SampleRunAgain

SpecSample == InitSample /\ [][NextSample]_vars

\* The data a CSV file holds, as read_csv reads it.
Dataset(content) == read_csv(content).df.values

\* C27: the backup, once written, holds the data job_postings_raw.csv had
\* before the first run, after any number of runs; after a run that went
\* through, job_postings_raw.csv and job_postings_raw_SAMPLE.csv both hold
\* the sample of that run, round(0.10 * n) rows of the n rows the raw file
\* had when the run started; a run that finds no raw file exits with
\* failure and leaves every file as it was.
C27_BackupKeepsFullDataset ==
  /\ Exists(files.backup_file) =>
        /\ files.backup_file.kind = "csv"
        /\ script.first_raw.kind = "csv"
        /\ Dataset(files.backup_file) = Dataset(script.first_raw)
  /\ (pc = "exited" /\ script.exit = "exit 0") =>
        /\ Exists(files.backup_file)
        /\ files.full_file = to_csv(script.df_sample)
        /\ files.sample_file = to_csv(script.df_sample)
        /\ script.df_sample \in Samples(read_csv(script.before.full_file).df)
        /\ Dataset(files.full_file) = script.df_sample.values
  /\ ~Exists(script.before.full_file) =>
        /\ files = script.before
        /\ pc \in {"check_exists", "exited"}
        /\ pc = "exited" => script.exit = "exit 1"

\* The second run has gone through: the raw file holds the sample of the
\* first run's sample, which is not what it held before the first run, and
\* the backup is the one the first run wrote.
C27_Witness ==
  /\ pc = "exited" /\ script.exit = "exit 0" /\ script.run = 2
  /\ Exists(files.backup_file)
  /\ Len(script.first_raw.rows) = MaxFullRows
  /\ Dataset(script.before.full_file) # Dataset(script.first_raw)
  /\ Dataset(files.full_file) # Dataset(script.before.full_file)

\* The backup is a file that read_csv and to_csv have rewritten: its text
\* is not always the text of the raw file (a cell 'NA' is written empty, 3
\* in a column with gaps is written 3.0).
BackupTextCanDiffer ==
  /\ Exists(files.backup_file)
  /\ files.backup_file # script.first_raw

====
